---- MODULE Spec2Model ----
(***************************************************************************)
(* A model of mcpy's macro expander (mcpy/expander.py), its marker         *)
(* primitives (mcpy/markers.py), its binding resolver and the bootstrapper *)
(* (mcpy/repl/macropython.py).                                             *)
(*                                                                         *)
(* Four independent state machines share this module:                      *)
(*   TrackerSpec   the NestingLevelTracker of mcpy/markers.py              *)
(*   ResolverSpec  find_macros / ismacroimport / _get_macros               *)
(*   Spec          MacroExpander, MacroCollector, expand_macros            *)
(*   MainSpec      import_module_as_main of mcpy/repl/macropython.py       *)
(* Each specification leaves the variables of the others idle.             *)
(***************************************************************************)
EXTENDS Integers, Sequences, FiniteSets, TLC

VARIABLES
  \* ---- NestingLevelTracker (markers.py) ----
  stack,      \* self.stack: the list of levels, last element is the current one
  cms,        \* context managers returned by set_to/changed_by, not yet entered
  open,       \* the scopes entered and not yet left, outermost first
  raising,    \* an error raised in a scope body is propagating
  lastError,  \* the error the step just taken raised at a set_to/changed_by call, "" if none
  peak,       \* deepest nesting reached since the tracker was last outside any scope
  lastExit,   \* what the scope exit just taken did (NoExit after any other step)
  \* ---- binding resolver (find_macros) ----
  rbody,      \* tree.body: the program's top-level statement list
  rorig,      \* tree.body as it was given to find_macros
  rbindings,  \* the dict find_macros returns
  rpc,        \* "start" | "returned" | "raised"
  rfilename,  \* the filename argument
  \* ---- expander / collector ----
  program,    \* the tree handed to the expander, replaced by its expansion
  orig,       \* the tree as it was before the first expansion
  bindings,   \* the expander's binding table: name -> transformer descriptor
  recursive,  \* MacroExpander.recursive
  calls,      \* the transformer calls of the last visit, in call order
  warnings,   \* the SyntaxWarnings given so far, in order
  pc,         \* "start" | "visited" | "expanded" | "raised" | "exhausted"
  passes,     \* how many times MacroExpander.visit has run on `tree`
  seen,       \* MacroCollector._seen
  collected,  \* MacroCollector.collected
  mcOn,       \* the trees the collector visited since it was last cleared
  \* ---- bootstrapper (import_module_as_main) ----
  mainName,   \* the name argument
  scriptMode, \* the script_mode argument
  world,      \* what the import machinery finds for the name
  sysModules, \* sys.modules
  mainModule, \* the module import_module_as_main returned
  mainPc      \* "start" | "returned" | "raised" ("idle" in the other machines)

trackerVars  == <<stack, cms, open, raising, lastError, peak, lastExit>>
resolverVars == <<rbody, rorig, rbindings, rpc, rfilename>>
expanderVars == <<program, orig, bindings, recursive, calls, warnings, pc, passes,
                  seen, collected, mcOn>>
mainVars == <<mainName, scriptMode, world, sysModules, mainModule, mainPc>>
vars == <<trackerVars, resolverVars, expanderVars, mainVars>>

\* The value Python's None is modelled by.
None == [t |-> "None"]

Max(a, b) == IF a >= b THEN a ELSE b

(***************************************************************************)
(* NestingLevelTracker                                                     *)
(***************************************************************************)

\* Largest level a scope is given.
MaxLevel == 1
\* Most scopes entered at once.
MaxOpen == 2
\* Most context managers created and not yet entered.
MaxPending == 2

\* The arguments tried: integers, and one value that is not an integer
\* (isint = FALSE; its n field is not used).
LevelArgs  == [isint : {TRUE}, n : -1 .. MaxLevel] \cup {[isint |-> FALSE, n |-> 0]}
DeltaArgs  == [isint : {TRUE}, n : -1 .. 1] \cup {[isint |-> FALSE, n |-> 0]}
StartLevels == 0 .. 1

\* NestingLevelTracker._get_value
Value == stack[Len(stack)]

NoExit == [depth |-> -1, before |-> 0, after |-> 0, viaError |-> FALSE, peak |-> 0]

\* NestingLevelTracker.__init__
TrackerInit ==
  /\ stack \in {<<s>> : s \in StartLevels}
  /\ cms = {}
  /\ open = <<>>
  /\ raising = FALSE
  /\ lastError = ""
  /\ peak = 0
  /\ lastExit = NoExit
  \* the resolver, the expander and the bootstrapper are idle
  /\ rbody = <<>> /\ rorig = <<>> /\ rbindings = <<>> /\ rpc = "idle" /\ rfilename = ""
  /\ program = None /\ orig = None /\ bindings = <<>> /\ recursive = TRUE
  /\ calls = <<>> /\ warnings = <<>> /\ pc = "idle" /\ passes = 0
  /\ seen = {} /\ collected = <<>> /\ mcOn = {}
  /\ mainName = "" /\ scriptMode = FALSE /\ world = None /\ sysModules = <<>>
  /\ mainModule = None /\ mainPc = "idle"

\* set_to without its two checks of `value`.
MakeScopeUnchecked(value, how, arg) ==
  /\ value.n <= MaxLevel
  /\ Cardinality(cms) < MaxPending
  /\ lastError' = ""
  /\ cms' = cms \cup {[value |-> value.n, how |-> how, arg |-> arg]}

\* set_to's checks and the context manager it returns; `how` and `arg` record
\* which call made it.
MakeScope(value, how, arg) ==
  IF ~value.isint
    THEN /\ lastError' = "TypeError"
         /\ UNCHANGED cms
    ELSE IF value.n < 0
      THEN /\ lastError' = "ValueError"
           /\ UNCHANGED cms
      ELSE /\ value.n <= MaxLevel
           /\ Cardinality(cms) < MaxPending
           /\ lastError' = ""
           /\ cms' = cms \cup {[value |-> value.n, how |-> how, arg |-> arg]}

\* NestingLevelTracker.set_to(value): the call, which enters nothing.
SetTo ==
  /\ ~raising
  /\ \E value \in LevelArgs : MakeScope(value, "set_to", 0)
  /\ lastExit' = NoExit
  /\ UNCHANGED <<stack, open, raising, peak>>
  /\ UNCHANGED <<resolverVars, expanderVars, mainVars>>

\* NestingLevelTracker.changed_by(delta): self.value + delta is computed at the
\* call; adding a non-integer to the level gives a non-integer (or fails in +).
ChangedBy ==
  /\ ~raising
  /\ \E delta \in DeltaArgs :
       MakeScope([isint |-> delta.isint, n |-> Value + delta.n], "changed_by", delta.n)
  /\ lastExit' = NoExit
  /\ UNCHANGED <<stack, open, raising, peak>>
  /\ UNCHANGED <<resolverVars, expanderVars, mainVars>>

\* `with cm:` __enter__ of _set_to: self.stack.append(value)
Enter ==
  /\ ~raising
  /\ Len(open) < MaxOpen
  /\ \E cm \in cms :
       /\ stack' = Append(stack, cm.value)
       /\ open' = Append(open, [cm |-> cm, before |-> Value])
       /\ cms' = cms \ {cm}
  /\ peak' = Max(peak, Len(open) + 1)
  /\ lastExit' = NoExit /\ lastError' = ""
  /\ UNCHANGED raising
  /\ UNCHANGED <<resolverVars, expanderVars, mainVars>>

\* A scope left after an error without the finally clause: nothing is popped.
PopScopeNoFinally(viaError) ==
  /\ open # <<>>
  /\ stack' = IF viaError THEN stack ELSE SubSeq(stack, 1, Len(stack) - 1)
  /\ open' = SubSeq(open, 1, Len(open) - 1)
  /\ lastExit' = [depth |-> Len(open) - 1, before |-> open[Len(open)].before,
                  after |-> stack'[Len(stack')], viaError |-> viaError, peak |-> peak]
  /\ peak' = IF Len(open) = 1 THEN 0 ELSE peak

\* The finally clause of _set_to: self.stack.pop(), for the innermost scope.
PopScope(viaError) ==
  /\ open # <<>>
  /\ stack' = SubSeq(stack, 1, Len(stack) - 1)
  /\ open' = SubSeq(open, 1, Len(open) - 1)
  /\ lastExit' = [depth |-> Len(open) - 1, before |-> open[Len(open)].before,
                  after |-> stack[Len(stack) - 1], viaError |-> viaError, peak |-> peak]
  /\ peak' = IF Len(open) = 1 THEN 0 ELSE peak

\* __exit__ of _set_to when the body ends normally.
ExitNormal ==
  /\ ~raising
  /\ PopScope(FALSE)
  /\ lastError' = ""
  /\ UNCHANGED <<cms, raising>>
  /\ UNCHANGED <<resolverVars, expanderVars, mainVars>>

\* The body of the innermost scope raises an error.
RaiseInBody ==
  /\ ~raising
  /\ open # <<>>
  /\ raising' = TRUE
  /\ lastExit' = NoExit /\ lastError' = ""
  /\ UNCHANGED <<stack, cms, open, peak>>
  /\ UNCHANGED <<resolverVars, expanderVars, mainVars>>

\* __exit__ of _set_to when an error propagates out of the body.
ExitError ==
  /\ raising
  /\ PopScope(TRUE)
  /\ lastError' = ""
  /\ UNCHANGED <<cms, raising>>
  /\ UNCHANGED <<resolverVars, expanderVars, mainVars>>

\* The propagating error is handled (by a handler around the scope just left,
\* or at top level).
Catch ==
  /\ raising
  /\ raising' = FALSE
  /\ lastExit' = NoExit /\ lastError' = ""
  /\ UNCHANGED <<stack, cms, open, peak>>
  /\ UNCHANGED <<resolverVars, expanderVars, mainVars>>

TrackerNext ==
  \/ SetTo
  \/ ChangedBy
  \/ Enter
  \/ ExitNormal
  \/ RaiseInBody
  \/ ExitError
  \/ Catch

(***************************************************************************)
(* Binding resolver: find_macros, ismacroimport, _get_macros               *)
(*                                                                         *)
(* A dotted module name is the sequence of its components; a missing       *)
(* module name (module=None) is the empty sequence; a str-or-None field    *)
(* (alias.asname) holds "" for None.                                       *)
(***************************************************************************)

\* Most top-level statements of a program given to find_macros.
MaxStmts == 2

NoName == ""

Alias(name, asname) == [name |-> name, asname |-> asname]
ImportFrom(module, names, level) ==
  [t |-> "ImportFrom", module |-> module, names |-> names, level |-> level]
Import(names) == [t |-> "Import", names |-> names]
Pass == [t |-> "Pass"]
Def(body) == [t |-> "FunctionDef", name |-> "f", decorator_list |-> <<>>, body |-> body]

\* The modules that can be imported, with the attributes each defines.
ModuleAttrs(absname) ==
  IF absname = <<"mac">> THEN {"f", "g", "h"}
  ELSE IF absname = <<"pkg", "mac">> THEN {"f", "h"}
  ELSE IF absname = <<"pkg", "sub", "mac">> THEN {"h"}
  ELSE {}
Importable(absname) == absname \in {<<"mac">>, <<"pkg", "mac">>, <<"pkg", "sub", "mac">>}

\* The files find_macros is called for. resolve_package (mcpy.importer, an
\* external collaborator) gives the package a file lies in, or fails.
Filenames == {"/src/pkg/sub/mod.py", "/src/pkg/top.py", "/src/script.py", "<interactive input>"}
EndsWithPy(filename) == filename # "<interactive input>"
HasPackage(filename) == filename \in {"/src/pkg/sub/mod.py", "/src/pkg/top.py"}
resolve_package(filename) ==
  IF filename = "/src/pkg/sub/mod.py" THEN <<"pkg", "sub">> ELSE <<"pkg">>

\* importlib.util.resolve_name('.' * level + module, package): the absolute
\* name, or <<>> when it raises (no package, or beyond the top-level package).
resolve_name(level, module, package) ==
  IF level = 0 THEN module
  ELSE IF package = <<>> THEN <<>>
  ELSE IF Len(package) < level THEN <<>>
  ELSE SubSeq(package, 1, Len(package) - (level - 1)) \o module

\* dict.update
DictUpdate(d1, d2) ==
  [k \in DOMAIN d1 \cup DOMAIN d2 |-> IF k \in DOMAIN d2 THEN d2[k] ELSE d1[k]]
EmptyDict == [k \in {} |-> None]

\* _get_macros as written with getattr(module, name.asname or name.name): the
\* attribute is looked up under the alias.
RECURSIVE GetAttrsByAlias(_, _, _, _, _)
GetAttrsByAlias(names, i, absname, reload, acc) ==
  IF i > Len(names) THEN [ok |-> TRUE, dict |-> acc]
  ELSE LET key == IF names[i].asname # NoName THEN names[i].asname ELSE names[i].name
           fn  == [module |-> absname, attr |-> key, reloaded |-> reload]
       IN IF key \notin ModuleAttrs(absname) THEN [ok |-> FALSE, dict |-> acc]
          ELSE GetAttrsByAlias(names, i + 1, absname, reload, DictUpdate(acc, (key :> fn)))

\* The dict comprehension of _get_macros over macroimport.names[1:], from the
\* i-th name on: asname-or-name -> the module's attribute. ok is FALSE when
\* getattr fails.
RECURSIVE GetAttrs(_, _, _, _, _)
GetAttrs(names, i, absname, reload, acc) ==
  IF i > Len(names) THEN [ok |-> TRUE, dict |-> acc]
  ELSE IF names[i].name \notin ModuleAttrs(absname) THEN [ok |-> FALSE, dict |-> acc]
  ELSE LET key == IF names[i].asname # NoName THEN names[i].asname ELSE names[i].name
           fn  == [module |-> absname, attr |-> names[i].name, reloaded |-> reload]
       IN GetAttrs(names, i + 1, absname, reload, DictUpdate(acc, (key :> fn)))

\* _get_macros(macroimport, filename=, reload=): [err, absname, dict].
get_macros(macroimport, filename, reload) ==
  LET relative == macroimport.level > 0 /\ EndsWithPy(filename)
      package  == IF relative /\ HasPackage(filename) THEN resolve_package(filename) ELSE <<>>
      absname  == resolve_name(macroimport.level, macroimport.module, package)
      attrs    == GetAttrs(macroimport.names, 2, absname, reload, EmptyDict)
      fail(e)  == [err |-> e, absname |-> <<>>, dict |-> EmptyDict]
  IN IF relative /\ ~HasPackage(filename) THEN fail("ImportError")
     ELSE IF macroimport.module = <<>> THEN fail("SyntaxError")
     ELSE IF absname = <<>> THEN fail("ValueError")
     ELSE IF ~Importable(absname) THEN fail("ImportError")
     ELSE IF ~attrs.ok THEN fail("AttributeError")
     ELSE [err |-> "", absname |-> absname, dict |-> attrs.dict]

\* ismacroimport with the alias check left out.
ismacroimportAnyAlias(statement) ==
  /\ statement.t = "ImportFrom"
  /\ statement.names[1].name = "macros"

\* ismacroimport(statement)
ismacroimport(statement) ==
  /\ statement.t = "ImportFrom"
  /\ statement.names[1].name = "macros"
  /\ statement.names[1].asname = NoName

\* The statement find_macros puts in place of a macro-import.
PlainImport(absname) == Import(<<Alias(absname, NoName)>>)

\* find_macros inserting the plain import before the macro-import it keeps.
RECURSIVE FindMacrosInsert(_, _, _, _, _)
FindMacrosInsert(body, index, filename, reload, acc) ==
  IF index > Len(body) THEN [err |-> "", body |-> body, bindings |-> acc]
  ELSE IF ismacroimport(body[index])
    THEN LET got == get_macros(body[index], filename, reload)
         IN IF got.err # "" THEN [err |-> got.err, body |-> body, bindings |-> acc]
            ELSE FindMacrosInsert(
                   SubSeq(body, 1, index - 1) \o <<PlainImport(got.absname)>>
                     \o SubSeq(body, index, Len(body)),
                   index + 2, filename, reload, DictUpdate(acc, got.dict))
    ELSE FindMacrosInsert(body, index + 1, filename, reload, acc)

\* The loop of find_macros from statement `index` on: [err, body, bindings].
\* An error leaves the statements before it rewritten.
RECURSIVE FindMacrosFrom(_, _, _, _, _)
FindMacrosFrom(body, index, filename, reload, acc) ==
  IF index > Len(body) THEN [err |-> "", body |-> body, bindings |-> acc]
  ELSE IF ismacroimport(body[index])
    THEN LET got == get_macros(body[index], filename, reload)
         IN IF got.err # "" THEN [err |-> got.err, body |-> body, bindings |-> acc]
            ELSE FindMacrosFrom([body EXCEPT ![index] = PlainImport(got.absname)],
                                index + 1, filename, reload, DictUpdate(acc, got.dict))
    ELSE FindMacrosFrom(body, index + 1, filename, reload, acc)

\* The statements programs are made of: macro-imports (absolute and relative,
\* with and without aliases, with one alias for two names, with a missing
\* module name, of a module that
\* cannot be imported, of a name the module lacks), import-froms that are not
\* macro-imports, and a definition with a macro-import nested in its body.
ResolverStmts ==
  { ImportFrom(<<"mac">>, <<Alias("macros", NoName), Alias("f", NoName)>>, 0),
    ImportFrom(<<"mac">>, <<Alias("macros", NoName), Alias("f", "g"), Alias("h", "f")>>, 0),
    ImportFrom(<<"mac">>, <<Alias("macros", NoName), Alias("f", "g"), Alias("h", "g")>>, 0),
    ImportFrom(<<"mac">>, <<Alias("macros", NoName)>>, 1),
    ImportFrom(<<"mac">>, <<Alias("macros", NoName), Alias("h", NoName)>>, 2),
    ImportFrom(<<>>, <<Alias("macros", NoName), Alias("f", NoName)>>, 1),
    ImportFrom(<<"nomod">>, <<Alias("macros", NoName), Alias("f", NoName)>>, 0),
    ImportFrom(<<"pkg", "mac">>, <<Alias("macros", NoName), Alias("h", NoName)>>, 0),
    ImportFrom(<<"mac">>, <<Alias("macros", "m"), Alias("f", NoName)>>, 0),
    ImportFrom(<<"mac">>, <<Alias("f", NoName), Alias("macros", NoName)>>, 0),
    Import(<<Alias(<<"mac">>, NoName)>>),
    Pass,
    Def(<<ImportFrom(<<"mac">>, <<Alias("macros", NoName), Alias("f", NoName)>>, 0)>>) }

RECURSIVE SeqsUpTo(_, _)
SeqsUpTo(S, n) ==
  IF n = 0 THEN {<<>>}
  ELSE LET shorter == SeqsUpTo(S, n - 1)
       IN shorter \cup {Append(s, x) : s \in {q \in shorter : Len(q) = n - 1}, x \in S}

ResolverInit ==
  /\ rbody \in SeqsUpTo(ResolverStmts, MaxStmts) \ {<<>>}
  /\ rorig = rbody
  /\ rbindings = <<>>
  /\ rpc = "start"
  /\ rfilename \in Filenames
  \* the tracker, the expander and the bootstrapper are idle
  /\ stack = <<0>> /\ cms = {} /\ open = <<>> /\ raising = FALSE
  /\ lastError = "" /\ peak = 0 /\ lastExit = NoExit
  /\ program = None /\ orig = None /\ bindings = <<>> /\ recursive = TRUE
  /\ calls = <<>> /\ warnings = <<>> /\ pc = "idle" /\ passes = 0
  /\ seen = {} /\ collected = <<>> /\ mcOn = {}
  /\ mainName = "" /\ scriptMode = FALSE /\ world = None /\ sysModules = <<>>
  /\ mainModule = None /\ mainPc = "idle"

\* find_macros(tree, filename=, reload=) returning the bindings.
FindMacrosReturn ==
  /\ rpc = "start"
  /\ \E reload \in BOOLEAN :
       LET r == FindMacrosFrom(rbody, 1, rfilename, reload, EmptyDict)
       IN /\ r.err = ""
          /\ rbody' = r.body
          /\ rbindings' = r.bindings
          /\ rpc' = "returned"
  /\ UNCHANGED <<rorig, rfilename>>
  /\ UNCHANGED <<trackerVars, expanderVars, mainVars>>

\* find_macros(tree, filename=, reload=) raising: the statements before the
\* failing macro-import stay rewritten, no bindings are returned.
FindMacrosRaise ==
  /\ rpc = "start"
  /\ \E reload \in BOOLEAN :
       LET r == FindMacrosFrom(rbody, 1, rfilename, reload, EmptyDict)
       IN /\ r.err # ""
          /\ rbody' = r.body
          /\ rpc' = "raised"
  /\ UNCHANGED <<rorig, rbindings, rfilename>>
  /\ UNCHANGED <<trackerVars, expanderVars, mainVars>>

ResolverNext ==
  \/ FindMacrosReturn
  \/ FindMacrosRaise

(***************************************************************************)
(* Syntax trees                                                            *)
(*                                                                         *)
(* A node is a record with its type in field t. A Python list of nodes is  *)
(* List(elts); Python's None is None. lineno = 0 stands for a node without *)
(* source-location attributes (a synthetic node); a parsed node has        *)
(* lineno >= 1. Subscript.slice holds the indexed expression (the value of *)
(* the Index node the code reads with subscript.slice.value).              *)
(*                                                                         *)
(* The attributes lineno and col_offset are set one by one in Python: a    *)
(* node may have either without the other. col_offset = NoOffset stands    *)
(* for a node without the attribute col_offset. The constructors build a   *)
(* node with both attributes or with neither; OnlyColOffset(node) is the   *)
(* node with col_offset and without lineno.                                *)
(***************************************************************************)

NoOffset == -1
ColOffsetAt(lineno) == IF lineno = 0 THEN NoOffset ELSE 0

List(elts) == [t |-> "list", elts |-> elts]
Name(id, lineno) ==
  [t |-> "Name", id |-> id, lineno |-> lineno, col_offset |-> ColOffsetAt(lineno)]
Constant(value) == [t |-> "Constant", value |-> value]
Subscript(value, slice, lineno) ==
  [t |-> "Subscript", value |-> value, slice |-> slice, lineno |-> lineno,
   col_offset |-> ColOffsetAt(lineno)]
Tuple(elts) == [t |-> "Tuple", elts |-> elts]
Expr(value) == [t |-> "Expr", value |-> value]
withitem(context_expr, optional_vars) ==
  [t |-> "withitem", context_expr |-> context_expr, optional_vars |-> optional_vars]
With(items, body, lineno) ==
  [t |-> "With", items |-> items, body |-> body, lineno |-> lineno,
   col_offset |-> ColOffsetAt(lineno)]
OnlyColOffset(node) == [node EXCEPT !.lineno = 0, !.col_offset = 0]
\* hasattr(node, 'lineno'), hasattr(node, 'col_offset')
hasattr(node, attr) ==
  IF attr = "lineno" THEN node.lineno # 0 ELSE node.col_offset # NoOffset
FunctionDef(decorator_list, body) ==
  [t |-> "FunctionDef", name |-> "f", decorator_list |-> decorator_list, body |-> body]
\* core.Done: the marker for a subtree that is not to be expanded again.
Done(body) == [t |-> "Done", body |-> body]
\* An ASTMarker subclass of some macro's own.
Marker(body) == [t |-> "Marker", body |-> body]

\* The statement _add_coverage_dummy_node builds.
CoverageDummy(lineno, macroname) ==
  Done(Expr([t |-> "Constant", value |-> "mcpy coverage", line |-> lineno, macro |-> macroname]))

(***************************************************************************)
(* Transformers and the binding table                                      *)
(*                                                                         *)
(* A binding is a transformer descriptor: the macro function (fn names     *)
(* what it does) and the two declarations @namemacro and @parametricmacro. *)
(***************************************************************************)

\* What the macro functions of the model do with their input tree:
\*   id      return the tree unchanged
\*   del     return None
\*   const   return a new tree with nothing to expand in it
\*   toA/toB return a new tree that invokes the macro named a / b
\*   marker  return a tree that holds a marker of the macro's own
\*   raise   raise an error
Behaviours == {"id", "del", "const", "toA", "toB", "marker", "raise"}

Raised == [t |-> "raise"]

\* The call macro(tree, **kw) of a bound macro function.
Apply(fn, syntax, tree, kw) ==
  LET inexpr == syntax \in {"expr", "name"}
      stmt(e) == IF inexpr THEN e ELSE Expr(e)
  IN CASE fn = "id" -> tree
       [] fn = "del" -> None
       [] fn = "const" -> stmt(Constant("k"))
       [] fn = "toA" -> stmt(Subscript(Name("a", 0), Constant("k"), 0))
       [] fn = "toB" -> stmt(Subscript(Name("b", 0), Constant("k"), 0))
       [] fn = "marker" -> IF inexpr THEN Marker(tree) ELSE Expr(Marker(Constant("k")))
       [] fn = "raise" -> Raised

Descriptor(fn, isname, isparam) == [fn |-> fn, isname |-> isname, isparam |-> isparam]

\* isnamemacro(function) / isparametricmacro(function)
isnamemacro(function) == function.isname
isparametricmacro(function) == function.isparam

\* BaseMacroExpander.isbound(name)
isbound(macroname) == macroname \in DOMAIN bindings

(***************************************************************************)
(* Invocation detection                                                    *)
(***************************************************************************)

\* `not macroargs` in Python: None or an empty list.
Falsy(macroargs) == macroargs.t = "None" \/ (macroargs.t = "list" /\ macroargs.elts = <<>>)

\* destructure_candidate with a one-element argument list for every slice: a
\* tuple slice is not unpacked.
destructure_candidate_nounpack(tree) ==
  IF tree.t = "Name" THEN [name |-> tree.id, args |-> List(<<>>)]
  ELSE IF tree.t = "Subscript" /\ tree.value.t = "Name"
    THEN [name |-> tree.value.id, args |-> List(<<tree.slice>>)]
  ELSE [name |-> NoName, args |-> None]

\* destructure_candidate(tree): (macroname, macroargs), or (None, None).
destructure_candidate(tree) ==
  IF tree.t = "Name" THEN [name |-> tree.id, args |-> List(<<>>)]
  ELSE IF tree.t = "Subscript" /\ tree.value.t = "Name"
    THEN [name |-> tree.value.id,
          args |-> IF tree.slice.t = "Tuple" THEN List(tree.slice.elts)
                   ELSE List(<<tree.slice>>)]
  ELSE [name |-> NoName, args |-> None]

\* ismacrocall without the check of the declarations.
ismacrocall_nogate(macroname, macroargs, syntax) ==
  macroname # NoName /\ isbound(macroname)

\* ismacrocall that takes arguments as a sign of a macro call.
ismacrocall_args(macroname, macroargs, syntax) ==
  IF ~(macroname # NoName /\ isbound(macroname)) THEN FALSE
  ELSE IF syntax = "name" THEN isnamemacro(bindings[macroname])
  ELSE ~Falsy(macroargs) \/ isparametricmacro(bindings[macroname])

\* MacroExpander.ismacrocall(macroname, macroargs, syntax)
ismacrocall(macroname, macroargs, syntax) ==
  IF ~(macroname # NoName /\ isbound(macroname)) THEN FALSE
  ELSE IF syntax = "name" THEN isnamemacro(bindings[macroname])
  ELSE Falsy(macroargs) \/ isparametricmacro(bindings[macroname])

(***************************************************************************)
(* MacroExpander                                                           *)
(*                                                                         *)
(* A visit threads the expander's state through the tree:                  *)
(*   calls   the transformer calls made so far, in order                   *)
(*   warns   the warnings given so far                                     *)
(*   rec     self.recursive                                                *)
(*   fuel    how many more transformer calls the model follows             *)
(*   status  "ok", "raised" (an error is propagating) or "exhausted" (the  *)
(*           expansion went on beyond MaxCalls transformer calls)          *)
(* and returns [v |-> the replacement (node, List or None), st |-> state]. *)
(***************************************************************************)

\* Most transformer calls followed in one visit.
MaxCalls == 8

StartState(rec) ==
  [calls |-> <<>>, warns |-> <<>>, rec |-> rec, fuel |-> MaxCalls, status |-> "ok"]

Ret(v, st) == [v |-> v, st |-> st]

RemoveAt(s, i) == SubSeq(s, 1, i - 1) \o SubSeq(s, i + 1, Len(s))

RECURSIVE Visit(_, _), VisitSeq(_, _, _, _), generic_visit(_, _), expand(_, _, _, _, _, _),
          visit_Subscript(_, _), visit_With(_, _), visit_Decorated(_, _), visit_Name(_, _)

\* ast.NodeTransformer.generic_visit over a list field, from element i on: a
\* None result drops the element, a list result is spliced in.
VisitSeq(elts, i, acc, st) ==
  IF i > Len(elts) THEN Ret(acc, st)
  ELSE LET r == Visit(elts[i], st)
       IN VisitSeq(elts, i + 1,
                   IF r.v.t = "None" THEN acc
                   ELSE IF r.v.t = "list" THEN acc \o r.v.elts
                   ELSE Append(acc, r.v),
                   r.st)

\* ast.NodeTransformer.generic_visit(node): the fields in _fields order.
generic_visit(node, st) ==
  CASE node.t = "Subscript" ->
         LET r1 == Visit(node.value, st)
             r2 == Visit(node.slice, r1.st)
         IN Ret([node EXCEPT !.value = r1.v, !.slice = r2.v], r2.st)
    [] node.t = "Tuple" ->
         LET r == VisitSeq(node.elts, 1, <<>>, st)
         IN Ret([node EXCEPT !.elts = r.v], r.st)
    [] node.t \in {"Expr"} ->
         LET r == Visit(node.value, st)
         IN Ret([node EXCEPT !.value = r.v], r.st)
    [] node.t = "Marker" ->
         LET r == Visit(node.body, st)
         IN Ret([node EXCEPT !.body = r.v], r.st)
    [] node.t = "withitem" ->
         LET r1 == Visit(node.context_expr, st)
             r2 == Visit(node.optional_vars, r1.st)
         IN Ret([node EXCEPT !.context_expr = r1.v, !.optional_vars = r2.v], r2.st)
    [] node.t = "With" ->
         LET r1 == VisitSeq(node.items, 1, <<>>, st)
             r2 == VisitSeq(node.body, 1, <<>>, r1.st)
         IN Ret([node EXCEPT !.items = r1.v, !.body = r2.v], r2.st)
    [] node.t = "FunctionDef" ->
         LET r1 == VisitSeq(node.body, 1, <<>>, st)
             r2 == VisitSeq(node.decorator_list, 1, <<>>, r1.st)
         IN Ret([node EXCEPT !.body = r1.v, !.decorator_list = r2.v], r2.st)
    [] OTHER -> Ret(node, st)

\* BaseMacroExpander.visit that walks into Done like into any other marker.
VisitIntoDone(tree, st) ==
  IF st.status # "ok" THEN Ret(tree, st)
  ELSE CASE tree.t = "None" -> Ret(tree, st)
         [] tree.t = "Done" ->
              LET r == Visit(tree.body, st) IN Ret([tree EXCEPT !.body = r.v], r.st)
         [] tree.t = "list" ->
              LET r == VisitSeq(tree.elts, 1, <<>>, st) IN Ret(List(r.v), r.st)
         [] tree.t = "Subscript" -> visit_Subscript(tree, st)
         [] tree.t = "With" -> visit_With(tree, st)
         [] tree.t = "FunctionDef" -> visit_Decorated(tree, st)
         [] tree.t = "Name" -> visit_Name(tree, st)
         [] OTHER -> generic_visit(tree, st)

\* BaseMacroExpander.visit(tree): None and Done are returned as they are, a
\* list is visited element by element, a node goes to its visit_ method.
Visit(tree, st) ==
  IF st.status # "ok" THEN Ret(tree, st)
  ELSE CASE tree.t \in {"None", "Done"} -> Ret(tree, st)
         [] tree.t = "list" ->
              LET r == VisitSeq(tree.elts, 1, <<>>, st) IN Ret(List(r.v), r.st)
         [] tree.t = "Subscript" -> visit_Subscript(tree, st)
         [] tree.t = "With" -> visit_With(tree, st)
         [] tree.t = "FunctionDef" -> visit_Decorated(tree, st)
         [] tree.t = "Name" -> visit_Name(tree, st)
         [] OTHER -> generic_visit(tree, st)

\* The record of one transformer call: what the macro function was given
\* (tree, syntax, args, optional_vars, the invocation node), what it returned,
\* and self.recursive during the call.
CallRecord(syntax, target, macroname, tree, kw, out, rec) ==
  [name |-> macroname, syntax |-> syntax, tree |-> tree, args |-> kw.args,
   optional_vars |-> kw.optional_vars, invoke_tree |-> target, out |-> out, rec |-> rec]

\* BaseMacroExpander.expand that visits the expansion whatever self.recursive is.
expand_always_recursive(syntax, target, macroname, tree, kw, st) ==
  LET returned(out, st1) ==
        IF out = Raised THEN Ret(target, [st1 EXCEPT !.status = "raised"])
        ELSE IF out = None THEN Ret(None, st1)
        ELSE Visit(out, st1)
      called(out) ==
        returned(out, [st EXCEPT !.calls = Append(@, CallRecord(syntax, target, macroname,
                                                               tree, kw, out, st.rec)),
                                 !.fuel = @ - 1])
  IN IF st.fuel = 0 THEN Ret(target, [st EXCEPT !.status = "exhausted"])
     ELSE called(Apply(bindings[macroname].fn, syntax, tree, kw))

\* BaseMacroExpander.expand(syntax, target, macroname, tree, kw=): call the
\* bound macro function; unless recursion is disabled, visit what it returned.
\* An error of the macro function propagates.
expand(syntax, target, macroname, tree, kw, st) ==
  LET returned(out, st1) ==
        IF out = Raised THEN Ret(target, [st1 EXCEPT !.status = "raised"])
        ELSE IF out = None THEN Ret(None, st1)
        ELSE IF st1.rec THEN Visit(out, st1)
        ELSE Ret(out, st1)
      called(out) ==
        returned(out, [st EXCEPT !.calls = Append(@, CallRecord(syntax, target, macroname,
                                                               tree, kw, out, st.rec)),
                                 !.fuel = @ - 1])
  IN IF st.fuel = 0 THEN Ret(target, [st EXCEPT !.status = "exhausted"])
     ELSE called(Apply(bindings[macroname].fn, syntax, tree, kw))

\* visit_Subscript that destructures the subscript itself, so that the
\* bracket after a name is read as its argument list.
visit_Subscript_self(subscript, st) ==
  LET candidate(macroname, macroargs) ==
        IF ismacrocall(macroname, macroargs, "expr")
          THEN expand("expr", subscript, macroname, subscript.slice,
                      [args |-> macroargs, optional_vars |-> None], st)
          ELSE generic_visit(subscript, st)
      destructured(d) == candidate(d.name, d.args)
  IN destructured(destructure_candidate(subscript))

\* MacroExpander.visit_Subscript(subscript)
visit_Subscript(subscript, st) ==
  LET candidate(macroname, macroargs) ==
        IF ismacrocall(macroname, macroargs, "expr")
          THEN expand("expr", subscript, macroname, subscript.slice,
                      [args |-> macroargs, optional_vars |-> None], st)
          ELSE generic_visit(subscript, st)
      destructured(d) == candidate(d.name, d.args)
  IN destructured(destructure_candidate(subscript.value))

\* The warning of _detect_macro_items.
Warning(macroname, syntax) == [name |-> macroname, syntax |-> syntax]

\* The likely-mistake test with the declaration check the wrong way round.
likely_mistake_inverted(macroname, macroargs) ==
  /\ macroname # NoName /\ isbound(macroname)
  /\ ~Falsy(macroargs) /\ isparametricmacro(bindings[macroname])

\* The condition of the likely-mistake warning in _detect_macro_items.
likely_mistake(macroname, macroargs) ==
  /\ macroname # NoName /\ isbound(macroname)
  /\ ~Falsy(macroargs) /\ ~isparametricmacro(bindings[macroname])

\* MacroExpander._detect_macro_items(items, syntax) from item i on: the
\* positions of the macro items and of the others, and the warnings given.
RECURSIVE DetectFrom(_, _, _, _, _, _)
DetectFrom(items, syntax, i, macros, others, st) ==
  LET sorted(macroname, macroargs, st1) ==
        IF ismacrocall(macroname, macroargs, syntax)
          THEN DetectFrom(items, syntax, i + 1, Append(macros, i), others, st1)
          ELSE DetectFrom(items, syntax, i + 1, macros, Append(others, i), st1)
      candidate(macroname, macroargs) ==
        sorted(macroname, macroargs,
               IF likely_mistake(macroname, macroargs)
                 THEN [st EXCEPT !.warns = Append(@, Warning(macroname, syntax))]
                 ELSE st)
      destructured(d) == candidate(d.name, d.args)
  IN IF i > Len(items) THEN [macros |-> macros, others |-> others, st |-> st]
     ELSE destructured(destructure_candidate(IF syntax = "block" THEN items[i].context_expr
                                             ELSE items[i]))

detect_macro_items(items, syntax, st) == DetectFrom(items, syntax, 1, <<>>, <<>>, st)

\* _add_coverage_dummy_node that marks nothing as Done.
add_coverage_dummy_node_bare(tree, macronode, macroname) ==
  IF ~hasattr(macronode, "lineno") /\ ~hasattr(macronode, "col_offset") THEN tree
  ELSE IF ~hasattr(macronode, "lineno") THEN Raised
  ELSE LET nodes == IF tree.t = "None" THEN <<>>
                    ELSE IF tree.t = "list" THEN tree.elts
                    ELSE <<tree>>
       IN List(<<CoverageDummy(macronode.lineno, macroname).body>> \o nodes)

\* _add_coverage_dummy_node(tree, macronode, macroname): Raised stands for
\* the AttributeError of reading macronode.lineno from a node without it.
add_coverage_dummy_node(tree, macronode, macroname) ==
  IF ~hasattr(macronode, "lineno") /\ ~hasattr(macronode, "col_offset") THEN tree
  ELSE IF ~hasattr(macronode, "lineno") THEN Raised
  ELSE LET nodes == IF tree.t = "None" THEN <<>>
                    ELSE IF tree.t = "list" THEN tree.elts
                    ELSE <<tree>>
       IN List(<<CoverageDummy(macronode.lineno, macroname)>> \o nodes)

\* visit_With that takes out the last macro item, as _visit_Decorated does.
visit_With_innermost(withstmt, st) ==
  LET covered(r, new_tree) ==
        IF new_tree = Raised THEN Ret(r.v, [r.st EXCEPT !.status = "raised"])
        ELSE Ret(new_tree, r.st)
      expanded(r, popped, macroname) ==
        IF r.st.status # "ok" THEN r
        ELSE covered(r, add_coverage_dummy_node(r.v, popped, macroname))
      invoke(with_item, d, popped, st1) ==
        expanded(expand("block", popped, d.name,
                        IF popped.items = <<>> THEN List(popped.body) ELSE List(<<popped>>),
                        [args |-> d.args, optional_vars |-> with_item.optional_vars], st1),
                 popped, d.name)
      pop(i, st1) ==
        invoke(withstmt.items[i], destructure_candidate(withstmt.items[i].context_expr),
               [withstmt EXCEPT !.items = RemoveAt(@, i)], st1)
      detected(det) ==
        IF det.macros = <<>> THEN generic_visit(withstmt, det.st)
        ELSE pop(det.macros[Len(det.macros)], det.st)
  IN detected(detect_macro_items(withstmt.items, "block", st))

\* MacroExpander.visit_With(withstmt)
visit_With(withstmt, st) ==
  LET covered(r, new_tree) ==
        IF new_tree = Raised THEN Ret(r.v, [r.st EXCEPT !.status = "raised"])
        ELSE Ret(new_tree, r.st)
      expanded(r, popped, macroname) ==
        IF r.st.status # "ok" THEN r
        ELSE covered(r, add_coverage_dummy_node(r.v, popped, macroname))
      invoke(with_item, d, popped, st1) ==
        expanded(expand("block", popped, d.name,
                        IF popped.items = <<>> THEN List(popped.body) ELSE List(<<popped>>),
                        [args |-> d.args, optional_vars |-> with_item.optional_vars], st1),
                 popped, d.name)
      \* the first macro item is taken out of the statement
      pop(i, st1) ==
        invoke(withstmt.items[i], destructure_candidate(withstmt.items[i].context_expr),
               [withstmt EXCEPT !.items = RemoveAt(@, i)], st1)
      detected(det) ==
        IF det.macros = <<>> THEN generic_visit(withstmt, det.st)
        ELSE pop(det.macros[1], det.st)
  IN detected(detect_macro_items(withstmt.items, "block", st))

\* _visit_Decorated that leaves the macro in the decorator list.
visit_Decorated_nopop(decorated, st) ==
  LET covered(r, new_tree) ==
        IF new_tree = Raised THEN Ret(r.v, [r.st EXCEPT !.status = "raised"])
        ELSE Ret(new_tree, r.st)
      expanded(r, innermost_macro, macroname) ==
        IF r.st.status # "ok" THEN r
        ELSE covered(r, add_coverage_dummy_node(r.v, innermost_macro, macroname))
      invoke(innermost_macro, d, popped, st1) ==
        expanded(expand("decorator", popped, d.name, popped,
                        [args |-> d.args, optional_vars |-> None], st1),
                 innermost_macro, d.name)
      pop(i, st1) ==
        invoke(decorated.decorator_list[i], destructure_candidate(decorated.decorator_list[i]),
               decorated, st1)
      detected(det) ==
        IF det.macros = <<>> THEN generic_visit(decorated, det.st)
        ELSE pop(det.macros[Len(det.macros)], det.st)
  IN detected(detect_macro_items(decorated.decorator_list, "decorator", st))

\* _visit_Decorated that takes out the first macro decorator, as visit_With
\* does with its items.
visit_Decorated_outermost(decorated, st) ==
  LET covered(r, new_tree) ==
        IF new_tree = Raised THEN Ret(r.v, [r.st EXCEPT !.status = "raised"])
        ELSE Ret(new_tree, r.st)
      expanded(r, innermost_macro, macroname) ==
        IF r.st.status # "ok" THEN r
        ELSE covered(r, add_coverage_dummy_node(r.v, innermost_macro, macroname))
      invoke(innermost_macro, d, popped, st1) ==
        expanded(expand("decorator", popped, d.name, popped,
                        [args |-> d.args, optional_vars |-> None], st1),
                 innermost_macro, d.name)
      pop(i, st1) ==
        invoke(decorated.decorator_list[i], destructure_candidate(decorated.decorator_list[i]),
               [decorated EXCEPT !.decorator_list = RemoveAt(@, i)], st1)
      detected(det) ==
        IF det.macros = <<>> THEN generic_visit(decorated, det.st)
        ELSE pop(det.macros[1], det.st)
  IN detected(detect_macro_items(decorated.decorator_list, "decorator", st))

\* MacroExpander._visit_Decorated(decorated), for visit_FunctionDef and
\* visit_ClassDef.
visit_Decorated(decorated, st) ==
  LET covered(r, new_tree) ==
        IF new_tree = Raised THEN Ret(r.v, [r.st EXCEPT !.status = "raised"])
        ELSE Ret(new_tree, r.st)
      expanded(r, innermost_macro, macroname) ==
        IF r.st.status # "ok" THEN r
        ELSE covered(r, add_coverage_dummy_node(r.v, innermost_macro, macroname))
      invoke(innermost_macro, d, popped, st1) ==
        expanded(expand("decorator", popped, d.name, popped,
                        [args |-> d.args, optional_vars |-> None], st1),
                 innermost_macro, d.name)
      \* the last macro decorator is taken out of the list
      pop(i, st1) ==
        invoke(decorated.decorator_list[i], destructure_candidate(decorated.decorator_list[i]),
               [decorated EXCEPT !.decorator_list = RemoveAt(@, i)], st1)
      detected(det) ==
        IF det.macros = <<>> THEN generic_visit(decorated, det.st)
        ELSE pop(det.macros[Len(det.macros)], det.st)
  IN detected(detect_macro_items(decorated.decorator_list, "decorator", st))

\* ismodified of visit_Name
ismodified(tree, macroname) == ~(tree.t = "Name" /\ tree.id = macroname)

\* visit_Name that returns an unchanged identifier as it is, without Done.
visit_Name_nodone(name, st) ==
  LET macroname == name.id
      expanded(new_tree, after) ==
        IF after.status # "ok" THEN Ret(new_tree, after)
        ELSE IF new_tree = None THEN Ret(None, after)
        ELSE IF ~ismodified(new_tree, macroname) THEN Ret(new_tree, after)
        ELSE IF after.rec THEN Visit(new_tree, after)
        ELSE Ret(new_tree, after)
      returned(r) == expanded(r.v, [r.st EXCEPT !.rec = st.rec])
  IN IF ismacrocall(macroname, None, "name")
       THEN returned(expand("name", name, macroname, name,
                            [args |-> None, optional_vars |-> None],
                            [st EXCEPT !.rec = FALSE]))
       ELSE Ret(name, st)

\* visit_Name that leaves self.recursive as the call left it: False.
visit_Name_norestore(name, st) ==
  LET macroname == name.id
      expanded(new_tree, after) ==
        IF after.status # "ok" THEN Ret(new_tree, after)
        ELSE IF new_tree = None THEN Ret(None, after)
        ELSE IF ~ismodified(new_tree, macroname) THEN Ret(Done(new_tree), after)
        ELSE IF after.rec THEN Visit(new_tree, after)
        ELSE Ret(new_tree, after)
      returned(r) == expanded(r.v, r.st)
  IN IF ismacrocall(macroname, None, "name")
       THEN returned(expand("name", name, macroname, name,
                            [args |-> None, optional_vars |-> None],
                            [st EXCEPT !.rec = FALSE]))
       ELSE Ret(name, st)

\* visit_Name that wraps an unchanged identifier in Done only when
\* self.recursive is true.
visit_Name_done_if_recursive(name, st) ==
  LET macroname == name.id
      expanded(new_tree, after) ==
        IF after.status # "ok" THEN Ret(new_tree, after)
        ELSE IF new_tree = None THEN Ret(None, after)
        ELSE IF ~after.rec THEN Ret(new_tree, after)
        ELSE IF ~ismodified(new_tree, macroname) THEN Ret(Done(new_tree), after)
        ELSE Visit(new_tree, after)
      returned(r) == expanded(r.v, [r.st EXCEPT !.rec = st.rec])
  IN IF ismacrocall(macroname, None, "name")
       THEN returned(expand("name", name, macroname, name,
                            [args |-> None, optional_vars |-> None],
                            [st EXCEPT !.rec = FALSE]))
       ELSE Ret(name, st)

\* MacroExpander.visit_Name(name)
visit_Name(name, st) ==
  LET macroname == name.id
      expanded(new_tree, after) ==
        IF after.status # "ok" THEN Ret(new_tree, after)
        ELSE IF new_tree = None THEN Ret(None, after)
        ELSE IF ~ismodified(new_tree, macroname) THEN Ret(Done(new_tree), after)
        ELSE IF after.rec THEN Visit(new_tree, after)
        ELSE Ret(new_tree, after)
      \* with self._recursive_mode(False): ... ; the flag is put back on the
      \* way out, also when the call raised
      returned(r) == expanded(r.v, [r.st EXCEPT !.rec = st.rec])
  IN IF ismacrocall(macroname, None, "name")
       THEN returned(expand("name", name, macroname, name,
                            [args |-> None, optional_vars |-> None],
                            [st EXCEPT !.rec = FALSE]))
       ELSE Ret(name, st)

(***************************************************************************)
(* Markers: get_markers, and the global postprocessing of the core         *)
(***************************************************************************)

\* The child nodes of a node, in field order.
Children(n) ==
  CASE n.t = "list" -> n.elts
    [] n.t = "Subscript" -> <<n.value, n.slice>>
    [] n.t = "Tuple" -> n.elts
    [] n.t = "Expr" -> <<n.value>>
    [] n.t = "withitem" -> <<n.context_expr, n.optional_vars>>
    [] n.t = "With" -> n.items \o n.body
    [] n.t = "FunctionDef" -> n.body \o n.decorator_list
    [] n.t \in {"Done", "Marker"} -> <<n.body>>
    [] OTHER -> <<>>

\* isinstance(tree, cls) for the marker classes: ASTMarker is the base class
\* of Done and of every macro's own marker.
IsMarkerInstance(n, cls) ==
  \/ cls = "ASTMarker" /\ n.t \in {"Done", "Marker"}
  \/ cls = n.t /\ n.t \in {"Done", "Marker"}
MarkerClasses == {"ASTMarker", "Done", "Marker"}

\* get_markers that looks at the root of the tree only.
get_markers_root(n, cls) == IF IsMarkerInstance(n, cls) THEN <<n>> ELSE <<>>

\* get_markers(tree, cls): the instances of cls in the tree, in visiting order.
RECURSIVE get_markers(_, _)
get_markers(n, cls) ==
  LET kids == Children(n)
      RECURSIVE below(_)
      below(i) == IF i > Len(kids) THEN <<>> ELSE get_markers(kids[i], cls) \o below(i + 1)
  IN (IF IsMarkerInstance(n, cls) THEN <<n>> ELSE <<>>) \o below(1)

\* The cleanup of core.global_postprocess: every Done marker is replaced by
\* its body.
RECURSIVE StripDone(_)
StripDoneSeq(s) == [i \in DOMAIN s |-> StripDone(s[i])]
StripDone(n) ==
  CASE n.t = "Done" -> StripDone(n.body)
    [] n.t = "list" -> [n EXCEPT !.elts = StripDoneSeq(@)]
    [] n.t = "Subscript" -> [n EXCEPT !.value = StripDone(@), !.slice = StripDone(@)]
    [] n.t = "Tuple" -> [n EXCEPT !.elts = StripDoneSeq(@)]
    [] n.t = "Expr" -> [n EXCEPT !.value = StripDone(@)]
    [] n.t = "withitem" -> [n EXCEPT !.context_expr = StripDone(@), !.optional_vars = StripDone(@)]
    [] n.t = "With" -> [n EXCEPT !.items = StripDoneSeq(@), !.body = StripDoneSeq(@)]
    [] n.t = "FunctionDef" -> [n EXCEPT !.decorator_list = StripDoneSeq(@), !.body = StripDoneSeq(@)]
    [] n.t = "Marker" -> [n EXCEPT !.body = StripDone(@)]
    [] OTHER -> n

\* core.global_postprocess(tree): the cleanup, and the postcondition that no
\* marker is left ("failed" when one is).
global_postprocess(expansion) ==
  LET cleaned == StripDone(expansion)
  IN [v |-> cleaned,
      status |-> IF get_markers(cleaned, "ASTMarker") = <<>> THEN "ok" ELSE "failed"]

(***************************************************************************)
(* MacroCollector                                                          *)
(*                                                                         *)
(* A visit threads the collector's state [seen, collected] and the         *)
(* warnings its calls of the expander's detector give (warns) through the  *)
(* tree; it returns nothing.                                               *)
(***************************************************************************)

RECURSIVE mc_visit(_, _), mc_visit_seq(_, _, _), mc_generic_visit(_, _)

\* The recording of a key without the test `key not in self._seen`.
CollectAgain(mc, macroname, syntax) ==
  [mc EXCEPT !.seen = @ \cup {<<macroname, syntax>>},
             !.collected = Append(@, <<macroname, syntax>>)]

\* `if key not in self._seen: self.collected.append(key); self._seen.add(key)`
Collect(mc, macroname, syntax) ==
  LET key == <<macroname, syntax>>
  IN IF key \in mc.seen THEN mc
     ELSE [mc EXCEPT !.seen = @ \cup {key}, !.collected = Append(@, key)]

\* NodeVisitorListMixin.visit of a list, from element i on.
mc_visit_seq(elts, i, mc) ==
  IF i > Len(elts) THEN mc ELSE mc_visit_seq(elts, i + 1, mc_visit(elts[i], mc))

\* ast.NodeVisitor.generic_visit(node): the child nodes in field order.
mc_generic_visit(node, mc) == mc_visit_seq(Children(node), 1, mc)

\* The macro items at the given positions: record each and visit its arguments.
RECURSIVE mc_macro_items(_, _, _, _, _)
mc_macro_items(items, syntax, positions, k, mc) ==
  IF k > Len(positions) THEN mc
  ELSE LET item == items[positions[k]]
           d == destructure_candidate(IF syntax = "block" THEN item.context_expr ELSE item)
       IN mc_macro_items(items, syntax, positions, k + 1,
                         mc_visit(d.args, Collect(mc, d.name, syntax)))

\* MacroCollector.visit_Subscript that also visits the whole subscript as an
\* ordinary node, name part included.
mc_visit_Subscript_generic(subscript, mc) ==
  LET d == destructure_candidate(subscript.value)
  IN IF ismacrocall(d.name, d.args, "expr")
       THEN mc_generic_visit(subscript, mc_visit(d.args, Collect(mc, d.name, "expr")))
       ELSE mc_generic_visit(subscript, mc)

\* MacroCollector.visit_Subscript(subscript)
mc_visit_Subscript(subscript, mc) ==
  LET d == destructure_candidate(subscript.value)
  IN IF ismacrocall(d.name, d.args, "expr")
       THEN mc_visit(subscript.slice, mc_visit(d.args, Collect(mc, d.name, "expr")))
       ELSE mc_generic_visit(subscript, mc)

\* MacroCollector.visit_With(withstmt)
mc_visit_With(withstmt, mc) ==
  LET others(det) == [k \in DOMAIN det.others |-> withstmt.items[det.others[k]]]
      \* self.expander._detect_macro_items gives its warnings here too
      detected(det, mc1) ==
        IF det.macros # <<>>
          THEN mc_visit_seq(withstmt.body, 1,
                 mc_visit_seq(others(det), 1,
                   mc_macro_items(withstmt.items, "block", det.macros, 1, mc1)))
          ELSE mc_generic_visit(withstmt, mc1)
      warned(det) == detected(det, [mc EXCEPT !.warns = @ \o det.st.warns])
  IN warned(detect_macro_items(withstmt.items, "block", StartState(TRUE)))

\* MacroCollector._visit_Decorated(decorated), for visit_FunctionDef and
\* visit_ClassDef.
mc_visit_Decorated(decorated, mc) ==
  LET others(det) == [k \in DOMAIN det.others |-> decorated.decorator_list[det.others[k]]]
      detected(det, mc1) ==
        IF det.macros # <<>>
          THEN mc_visit_seq(decorated.body, 1,
                 mc_visit_seq(others(det), 1,
                   mc_macro_items(decorated.decorator_list, "decorator", det.macros, 1, mc1)))
          ELSE mc_generic_visit(decorated, mc1)
      warned(det) == detected(det, [mc EXCEPT !.warns = @ \o det.st.warns])
  IN warned(detect_macro_items(decorated.decorator_list, "decorator", StartState(TRUE)))

\* MacroCollector.visit_Name(name)
mc_visit_Name(name, mc) ==
  IF ismacrocall(name.id, None, "name") THEN Collect(mc, name.id, "name") ELSE mc

\* MacroCollector.visit without the check for Done.
mc_visit_into_done(tree, mc) ==
  CASE tree.t = "None" -> mc
    [] tree.t = "list" -> mc_visit_seq(tree.elts, 1, mc)
    [] tree.t = "Subscript" -> mc_visit_Subscript(tree, mc)
    [] tree.t = "With" -> mc_visit_With(tree, mc)
    [] tree.t = "FunctionDef" -> mc_visit_Decorated(tree, mc)
    [] tree.t = "Name" -> mc_visit_Name(tree, mc)
    [] OTHER -> mc_generic_visit(tree, mc)

\* MacroCollector.visit(tree): nothing for a Done; a list element by element
\* (NodeVisitorListMixin); a node goes to its visit_ method.
mc_visit(tree, mc) ==
  CASE tree.t \in {"Done", "None"} -> mc
    [] tree.t = "list" -> mc_visit_seq(tree.elts, 1, mc)
    [] tree.t = "Subscript" -> mc_visit_Subscript(tree, mc)
    [] tree.t = "With" -> mc_visit_With(tree, mc)
    [] tree.t = "FunctionDef" -> mc_visit_Decorated(tree, mc)
    [] tree.t = "Name" -> mc_visit_Name(tree, mc)
    [] OTHER -> mc_generic_visit(tree, mc)

(***************************************************************************)
(* The programs and binding tables the expander is run on                  *)
(***************************************************************************)

\* Most elements of a bracketed argument tuple.
MaxArgs == 2
\* Most clauses of a `with` header, and most decorators of a definition.
MaxItems == 2
\* Most visits of the same tree by MacroExpander.visit.
MaxPasses == 1
\* The collector visits while fewer warnings than this have been given.
MaxWarnings == 3

\* Parsed identifiers: a and b may be bound as macros, x never is.
Na == Name("a", 1)
Nb == Name("b", 1)
Nx == Name("x", 1)

RECURSIVE SeqsOfLen(_, _)
SeqsOfLen(S, n) ==
  IF n = 0 THEN {<<>>} ELSE {Append(s, x) : s \in SeqsOfLen(S, n - 1), x \in S}
SeqsFromTo(S, lo, hi) == UNION {SeqsOfLen(S, n) : n \in lo .. hi}

\* name[arg0, arg1, ...]: a name subscripted with a tuple.
ArgTuples == {Tuple(s) : s \in SeqsFromTo({Nx, Nb}, 2, MaxArgs)}
WithArgs == {Subscript(Na, tup, 1) : tup \in ArgTuples}
              \cup {Subscript(Nb, Tuple(<<Nx, Nx>>), 1)}

\* What stands in front of the last bracket of an expression.
Heads == {Na, Nb, Nx, Subscript(Na, Nb, 1)} \cup WithArgs
\* What stands in the last bracket.
Targets == {Nx, Nb, Done(Subscript(Nb, Nx, 1)), Marker(Nb)}

Exprs ==
  {Na, Nx, Done(Subscript(Na, Nx, 1))} \cup WithArgs
    \cup {Subscript(h, t, 1) : h \in Heads, t \in Targets}

Bodies ==
  { <<Expr(Subscript(Nb, Nx, 1))>>, <<Expr(Na), Expr(Done(Na))>> }

\* The clauses of `with` headers and the decorators.
Candidates ==
  {Na, Nb, Nx, Subscript(Na, Tuple(<<Nx, Nb>>), 1), Name("a", 0)}
WithItems ==
  {withitem(c, None) : c \in Candidates} \cup {withitem(Na, Name("r", 1))}

\* Expression statements, `with` statements (one clause: with and without
\* source location, and with a column offset only, both bodies; more
\* clauses: parsed, one body) and definitions (likewise; a decorator with a
\* column offset only stands alone).
Programs ==
  {Expr(e) : e \in Exprs}
    \cup {With(<<item>>, body, lineno) :
            item \in WithItems, body \in Bodies, lineno \in {0, 1}}
    \cup {OnlyColOffset(With(<<item>>, body, 0)) :
            item \in WithItems, body \in Bodies}
    \cup {FunctionDef(<<OnlyColOffset(c)>>, body) :
            c \in {Na, Subscript(Na, Tuple(<<Nx, Nb>>), 1)}, body \in Bodies}
    \cup {With(items, <<Expr(Subscript(Nb, Nx, 1))>>, 1) :
            items \in SeqsFromTo(WithItems, 2, MaxItems)}
    \cup {FunctionDef(decorators, body) :
            decorators \in SeqsFromTo(Candidates, 0, 1), body \in Bodies}
    \cup {FunctionDef(decorators, <<Expr(Subscript(Nb, Nx, 1))>>) :
            decorators \in SeqsFromTo(Candidates, 2, MaxItems)}

\* The bindings of a: every combination of declarations for the macro that
\* returns its tree, and the other macros with both declarations.
DescriptorsA ==
  {Descriptor("id", isname, isparam) : isname \in BOOLEAN, isparam \in BOOLEAN}
    \cup {Descriptor(fn, TRUE, TRUE) : fn \in Behaviours \ {"id"}}
DescriptorsB ==
  {Descriptor("id", TRUE, FALSE), Descriptor("toA", FALSE, FALSE)}

\* The binding tables: a and b each bound or not.
BindingTables ==
  {EmptyDict}
    \cup {("a" :> da) : da \in DescriptorsA}
    \cup {("b" :> db) : db \in DescriptorsB}
    \cup {("a" :> da) @@ ("b" :> db) : da \in DescriptorsA, db \in DescriptorsB}

(***************************************************************************)
(* The expander and the collector as a state machine                       *)
(***************************************************************************)

\* A program and a binding table are given; MacroExpander.__init__ sets
\* recursive, MacroCollector.__init__ clears the collector.
Init ==
  /\ program \in Programs
  /\ orig = program
  /\ bindings \in BindingTables
  /\ recursive = TRUE
  /\ calls = <<>>
  /\ warnings = <<>>
  /\ pc = "start"
  /\ passes = 0
  /\ seen = {}
  /\ collected = <<>>
  /\ mcOn = {}
  \* the tracker, the resolver and the bootstrapper are idle
  /\ stack = <<0>> /\ cms = {} /\ open = <<>> /\ raising = FALSE
  /\ lastError = "" /\ peak = 0 /\ lastExit = NoExit
  /\ rbody = <<>> /\ rorig = <<>> /\ rbindings = <<>> /\ rpc = "idle" /\ rfilename = ""
  /\ mainName = "" /\ scriptMode = FALSE /\ world = None /\ sysModules = <<>>
  /\ mainModule = None /\ mainPc = "idle"

\* MacroExpander(bindings, filename).visit(tree), on the same expander for
\* every pass.
ExpanderVisit ==
  /\ pc \in {"start", "visited"}
  /\ passes < MaxPasses
  /\ \E r \in {Visit(program, StartState(recursive))} :
        /\ program' = r.v
        /\ calls' = r.st.calls
        /\ warnings' = warnings \o r.st.warns
        /\ recursive' = r.st.rec
        /\ pc' = IF r.st.status = "ok" THEN "visited" ELSE r.st.status
  /\ passes' = passes + 1
  /\ UNCHANGED <<orig, bindings, seen, collected, mcOn>>
  /\ UNCHANGED <<trackerVars, resolverVars, mainVars>>

\* expand_macros that returns the expansion without the postprocessing.
expand_macros_nopost ==
  /\ pc \in {"start", "visited"}
  /\ passes < MaxPasses
  /\ \E r \in {Visit(program, StartState(TRUE))} :
        /\ calls' = r.st.calls
        /\ warnings' = warnings \o r.st.warns
        /\ program' = r.v
        /\ pc' = IF r.st.status = "ok" THEN "expanded" ELSE r.st.status
  /\ passes' = passes + 1
  /\ UNCHANGED <<orig, bindings, recursive, seen, collected, mcOn>>
  /\ UNCHANGED <<trackerVars, resolverVars, mainVars>>

\* expand_macros(tree, bindings, filename=): a new expander visits the program,
\* then the global postprocessing runs.
expand_macros ==
  /\ pc \in {"start", "visited"}
  /\ passes < MaxPasses
  /\ \E r \in {Visit(program, StartState(TRUE))} :
        /\ calls' = r.st.calls
        /\ warnings' = warnings \o r.st.warns
        /\ IF r.st.status # "ok"
             THEN program' = r.v /\ pc' = r.st.status
             ELSE \E p \in {global_postprocess(r.v)} :
                    /\ program' = p.v
                    /\ pc' = IF p.status = "ok" THEN "expanded" ELSE "failed"
  /\ passes' = passes + 1
  /\ UNCHANGED <<orig, bindings, recursive, seen, collected, mcOn>>
  /\ UNCHANGED <<trackerVars, resolverVars, mainVars>>

\* `with expander._recursive_mode(isrecursive):` around the visits that
\* follow: the scope sets self.recursive on entry and puts the former value
\* back on exit (the step is either of the two, before anything is visited).
RecursiveMode ==
  /\ pc = "start"
  /\ \E isrecursive \in BOOLEAN :
       /\ isrecursive # recursive
       /\ recursive' = isrecursive
  /\ UNCHANGED <<program, orig, bindings, calls, warnings, pc, passes, seen, collected, mcOn>>
  /\ UNCHANGED <<trackerVars, resolverVars, mainVars>>

\* MacroCollector(expander).visit(tree)
CollectorVisit ==
  /\ pc \in {"start", "visited"}
  /\ program \notin mcOn
  /\ Len(warnings) < MaxWarnings
  /\ \E mc \in {mc_visit(program, [seen |-> seen, collected |-> collected,
                                     warns |-> <<>>])} :
        /\ seen' = mc.seen
        /\ collected' = mc.collected
        /\ warnings' = warnings \o mc.warns
  /\ mcOn' = mcOn \cup {program}
  /\ UNCHANGED <<program, orig, bindings, recursive, calls, pc, passes>>
  /\ UNCHANGED <<trackerVars, resolverVars, mainVars>>

\* MacroCollector.clear()
CollectorClear ==
  /\ mcOn # {}
  /\ seen' = {}
  /\ collected' = <<>>
  /\ mcOn' = {}
  /\ UNCHANGED <<program, orig, bindings, recursive, calls, warnings, pc, passes>>
  /\ UNCHANGED <<trackerVars, resolverVars, mainVars>>

Next ==
  \/ RecursiveMode
  \/ ExpanderVisit
  \/ expand_macros
  \/ CollectorVisit
  \/ CollectorClear

(***************************************************************************)
(* The bootstrapper: import_module_as_main (mcpy/repl/macropython.py)      *)
(*                                                                         *)
(* A dotted name is the sequence of its components; a relative name starts *)
(* with an empty component. The import machinery is given by `world`:      *)
(*   parent  import_module(parent_name) succeeds                           *)
(*   found   some finder of sys.meta_path has a spec for the name          *)
(*   origin  spec.origin: a module file, a package's __init__.py, or       *)
(*           "namespace" (a namespace package, whose spec has no loader)   *)
(*   runs    the code of the module (or of the package) runs to its end    *)
(*   mainpy  what importing <name>.__main__ does                           *)
(***************************************************************************)

MainNames == {<<"mod">>, <<"pkg", "mod">>, <<"", "mod">>}
Origins == {"mod.py", "__init__.py", "namespace"}
MainPys == {"runs", "missing", "ImportError", "raises"}
Worlds == [parent : BOOLEAN, found : BOOLEAN, origin : Origins, runs : BOOLEAN,
           mainpy : MainPys]

\* A module object.
Module(name, origin, package) ==
  [t |-> "module", name |-> name, origin |-> origin, package |-> package]

\* The module of the bootstrapper program, which is __main__ at the start.
Bootstrapper == Module(<<"__main__">>, "macropython.py", <<>>)

\* What import_module_as_main gives: the error raised ("" if none), the module
\* returned and sys.modules afterwards.
MainResult(err, module, modules) == [err |-> err, module |-> module, modules |-> modules]

\* importlib.import_module(name) of a module not loaded yet: it is put into
\* sys.modules under its own name.
import_module(name, modules) == (name :> Module(name, "imported", <<>>)) @@ modules

\* The end of import_module_as_main: import <name>.__main__, then return.
run_mainpy(absolute_name, module, mainpy, modules) ==
  IF mainpy = "runs"
    THEN MainResult("", module, import_module(Append(absolute_name, "__main__"), modules))
  ELSE IF mainpy = "missing" THEN MainResult("ImportError", None, modules)
  ELSE IF mainpy = "ImportError" THEN MainResult("ImportError", None, modules)
  ELSE MainResult("Exception", None, modules)

\* import_module_as_main after the spec was found: the module is made from
\* the spec and loaded.
load_as_main(absolute_name, path, script_mode, w, modules) ==
  LET parent_name == SubSeq(absolute_name, 1, Len(absolute_name) - 1)
      initpy == ~script_mode /\ path = None /\ w.origin = "__init__.py"
      package == IF script_mode THEN <<>>
                 ELSE IF path # None THEN parent_name
                 ELSE IF initpy THEN absolute_name
                 ELSE None
      loaded(module) ==
        IF initpy
          \* try_mainpy: the package is imported normally, then its __main__
          THEN IF ~w.runs THEN MainResult("Exception", None, modules)
               ELSE run_mainpy(absolute_name, module, w.mainpy,
                               import_module(absolute_name, modules))
        ELSE IF w.origin # "namespace"
          \* spec.loader.exec_module(module); sys.modules["__main__"] = module
          THEN IF ~w.runs THEN MainResult("Exception", None, modules)
               ELSE MainResult("", module, (<<"__main__">> :> module) @@ modules)
        \* a namespace package: only its __main__ is imported
        ELSE run_mainpy(absolute_name, module, w.mainpy, modules)
  IN loaded(Module(<<"__main__">>, w.origin, package))

\* import_module_as_main(name, script_mode)
import_module_as_main(name, script_mode, w, modules) ==
  \* resolve_name(name, package=None) of a relative name
  IF name[1] = "" THEN MainResult("ValueError", None, modules)
  \* a dotted name in script mode: assert False
  ELSE IF Len(name) > 1 /\ script_mode THEN MainResult("AssertionError", None, modules)
  \* import_module(parent_name)
  ELSE IF Len(name) > 1 /\ ~w.parent THEN MainResult("ImportError", None, modules)
  \* no finder has a spec
  ELSE IF ~w.found
    THEN MainResult("ModuleNotFoundError", None,
                    IF Len(name) > 1
                      THEN import_module(SubSeq(name, 1, Len(name) - 1), modules)
                      ELSE modules)
  ELSE IF Len(name) > 1
    THEN load_as_main(name, List(<<"pkg">>), script_mode, w,
                      import_module(SubSeq(name, 1, Len(name) - 1), modules))
  ELSE load_as_main(name, None, script_mode, w, modules)

\* The bootstrapper is running: it is __main__ in sys.modules.
MainInit ==
  /\ mainName \in MainNames
  /\ scriptMode \in BOOLEAN
  /\ world \in Worlds
  /\ sysModules = (<<"__main__">> :> Bootstrapper)
  /\ mainModule = None
  /\ mainPc = "start"
  \* the tracker, the resolver and the expander are idle
  /\ stack = <<0>> /\ cms = {} /\ open = <<>> /\ raising = FALSE
  /\ lastError = "" /\ peak = 0 /\ lastExit = NoExit
  /\ rbody = <<>> /\ rorig = <<>> /\ rbindings = <<>> /\ rpc = "idle" /\ rfilename = ""
  /\ program = None /\ orig = None /\ bindings = <<>> /\ recursive = TRUE
  /\ calls = <<>> /\ warnings = <<>> /\ pc = "idle" /\ passes = 0
  /\ seen = {} /\ collected = <<>> /\ mcOn = {}

\* import_module_as_main(name, script_mode) returning the module.
ImportAsMainReturn ==
  /\ mainPc = "start"
  /\ \E r \in {import_module_as_main(mainName, scriptMode, world, sysModules)} :
       /\ r.err = ""
       /\ sysModules' = r.modules
       /\ mainModule' = r.module
       /\ mainPc' = "returned"
  /\ UNCHANGED <<mainName, scriptMode, world>>
  /\ UNCHANGED <<trackerVars, resolverVars, expanderVars>>

\* import_module_as_main(name, script_mode) raising.
ImportAsMainRaise ==
  /\ mainPc = "start"
  /\ \E r \in {import_module_as_main(mainName, scriptMode, world, sysModules)} :
       /\ r.err # ""
       /\ sysModules' = r.modules
       /\ mainPc' = "raised"
  /\ UNCHANGED <<mainName, scriptMode, world, mainModule>>
  /\ UNCHANGED <<trackerVars, resolverVars, expanderVars>>

MainNext ==
  \/ ImportAsMainReturn
  \/ ImportAsMainRaise

(***************************************************************************)
(* Specifications                                                          *)
(***************************************************************************)

TrackerSpec == TrackerInit /\ [][TrackerNext]_vars

ResolverSpec == ResolverInit /\ [][ResolverNext]_vars

Spec == Init /\ [][Next]_vars

MainSpec == MainInit /\ [][MainNext]_vars

(***************************************************************************)
(* Claims                                                                  *)
(***************************************************************************)

\* C1: for properly nested set_to / changed_by scopes, also when scopes are
\* left because the body raised an error, the tracker's value after the
\* outermost scope exits equals its value just before that scope was entered.
C1_ScopedCounterBalance ==
  lastExit.depth = 0 => /\ lastExit.after = lastExit.before
                        /\ (open = <<>> => Len(stack) = 1)

\* C1 witness: an outermost scope that had another scope nested in it was left
\* by an error, and it had changed the level while it was open.
C1_Witness ==
  /\ lastExit.depth = 0 /\ lastExit.viaError /\ lastExit.peak >= 2
  /\ open = <<>> /\ lastExit.before = 1

\* A macro-import declaration: an import-from whose first imported item is
\* `macros` without alias.
MacroImportDecl(statement) ==
  /\ statement.t = "ImportFrom"
  /\ Len(statement.names) >= 1
  /\ statement.names[1] = Alias("macros", NoName)

\* Whether a macro-import occurs in a statement, at any depth.
RECURSIVE HasMacroImport(_)
HasMacroImport(statement) ==
  \/ MacroImportDecl(statement)
  \/ /\ statement.t = "FunctionDef"
     /\ \E i \in DOMAIN statement.body : HasMacroImport(statement.body[i])

IsSuffix(s, whole) ==
  /\ Len(s) <= Len(whole)
  /\ SubSeq(whole, Len(whole) - Len(s) + 1, Len(whole)) = s

\* Statement `new` is exactly one plain absolute import of the module the
\* macro-import `old` names: the module itself for an absolute macro-import,
\* the module below an enclosing package of the file for a relative one.
IsPlainImportOf(new, old) ==
  /\ new.t = "Import"
  /\ Len(new.names) = 1
  /\ new.names[1].asname = NoName
  /\ IF old.level = 0
       THEN new.names[1].name = old.module
       ELSE /\ IsSuffix(old.module, new.names[1].name)
            /\ HasPackage(rfilename)
            /\ LET package == resolve_package(rfilename)
                   prefix == SubSeq(new.names[1].name, 1, Len(new.names[1].name) - Len(old.module))
               IN /\ Len(prefix) = Len(package) - (old.level - 1)
                  /\ prefix = SubSeq(package, 1, Len(prefix))

ReplacedInPlace ==
  /\ Len(rbody) = Len(rorig)
  /\ \A i \in DOMAIN rorig :
       IF MacroImportDecl(rorig[i]) THEN IsPlainImportOf(rbody[i], rorig[i])
       ELSE rbody[i] = rorig[i]

\* C2 as stated: after find_macros returns, no macro-import survives anywhere
\* in the program, each was replaced in place by one plain absolute import of
\* the same module, and the number of statements is unchanged.
C2_Original ==
  rpc = "returned" =>
    /\ \A i \in DOMAIN rbody : ~HasMacroImport(rbody[i])
    /\ ReplacedInPlace

\* C2 amended: after find_macros returns, no macro-import survives among the
\* top-level statements, each of those was replaced in place by one plain
\* absolute import of the same module, every other top-level statement
\* (with any macro-import nested in it) is unchanged, and the number of
\* statements is unchanged.
C2_ImportNormalization ==
  rpc = "returned" =>
    /\ \A i \in DOMAIN rbody : ~MacroImportDecl(rbody[i])
    /\ ReplacedInPlace

\* C2 witness: find_macros returned for a program with a relative macro-import
\* at top level.
C2_Witness ==
  /\ rpc = "returned"
  /\ \E i \in DOMAIN rorig : MacroImportDecl(rorig[i]) /\ rorig[i].level = 2
  /\ \E i \in DOMAIN rorig : MacroImportDecl(rorig[i]) /\ rorig[i].level = 0

(***************************************************************************)
(* The collector against the expander                                      *)
(***************************************************************************)

Range(s) == {s[i] : i \in DOMAIN s}

\* The nodes of a tree: the tree itself and everything below it.
RECURSIVE Nodes(_)
Nodes(n) == {n} \cup UNION {Nodes(k) : k \in Range(Children(n))}

\* The names of bound macros that a tree mentions.
BoundNames(tree) == {n \in Nodes(tree) : n.t = "Name" /\ isbound(n.id)}

\* What stands where an invocation may stand with arguments: the value of a
\* subscript, the clause of a `with` header, a decorator.
ArgCandidates(tree) ==
  {m.value : m \in {k \in Nodes(tree) : k.t = "Subscript"}}
    \cup {m.context_expr : m \in {k \in Nodes(tree) : k.t = "withitem"}}
    \cup UNION {Range(m.decorator_list) : m \in {k \in Nodes(tree) : k.t = "FunctionDef"}}

\* name[args] for a bound parametric macro.
HasArgs(c) ==
  /\ c.t = "Subscript" /\ c.value.t = "Name"
  /\ isbound(c.value.id) /\ isparametricmacro(bindings[c.value.id])

NoBoundNameInArgs(tree) ==
  \A c \in ArgCandidates(tree) : HasArgs(c) => BoundNames(c.slice) = {}

\* Every bound macro function returns the tree it is given.
ReturnsInput == \A n \in DOMAIN bindings : bindings[n].fn = "id"

\* The (name, kind) pairs of the transformer calls made.
CallKeys == {<<calls[i].name, calls[i].syntax>> : i \in DOMAIN calls}

\* The first pass over the program has returned, and the collector has
\* visited the unexpanded program and nothing else.
FirstPassCollected ==
  /\ pc \in {"visited", "expanded"} /\ passes = 1
  /\ mcOn = {orig}

\* C3 as stated: for any program and binding table, the pairs the collector
\* records on the unexpanded program are the pairs of the transformer calls
\* of the first expansion pass.
C3_Original == FirstPassCollected => seen = CallKeys

\* C3, amended: the two sets are equal when the expander is in recursive
\* mode, every bound macro function returns the tree it was given, and no
\* macro argument list mentions a bound macro name.
C3_CollectorAgreement ==
  (FirstPassCollected /\ recursive /\ ReturnsInput /\ NoBoundNameInArgs(orig))
    => seen = CallKeys

C3_Witness ==
  /\ FirstPassCollected /\ recursive /\ ReturnsInput /\ NoBoundNameInArgs(orig)
  /\ Cardinality(CallKeys) >= 2
  /\ \E c \in Range(calls) : c.syntax = "name"

(***************************************************************************)
(* Done                                                                    *)
(***************************************************************************)

\* The tree with the content of every Done marker blotted out.
RECURSIVE Opaque(_)
OpaqueSeq(s) == [i \in DOMAIN s |-> Opaque(s[i])]
Opaque(n) ==
  CASE n.t = "Done" -> Done(Constant("opaque"))
    [] n.t = "list" -> [n EXCEPT !.elts = OpaqueSeq(@)]
    [] n.t = "Subscript" -> [n EXCEPT !.value = Opaque(@), !.slice = Opaque(@)]
    [] n.t = "Tuple" -> [n EXCEPT !.elts = OpaqueSeq(@)]
    [] n.t = "Expr" -> [n EXCEPT !.value = Opaque(@)]
    [] n.t = "withitem" -> [n EXCEPT !.context_expr = Opaque(@), !.optional_vars = Opaque(@)]
    [] n.t = "With" -> [n EXCEPT !.items = OpaqueSeq(@), !.body = OpaqueSeq(@)]
    [] n.t = "FunctionDef" -> [n EXCEPT !.decorator_list = OpaqueSeq(@), !.body = OpaqueSeq(@)]
    [] n.t = "Marker" -> [n EXCEPT !.body = Opaque(@)]
    [] OTHER -> n

\* A Done marker the engine makes: around an identifier a name macro returned
\* unchanged, or around a coverage statement.
EngineDone(m) ==
  \/ m.body.t = "Name" /\ isbound(m.body.id) /\ isnamemacro(bindings[m.body.id])
  \/ m.body.t = "Expr" /\ m.body.value.t = "Constant" /\ m.body.value.value = "mcpy coverage"

KeysOf(log) == [i \in DOMAIN log |-> <<log[i].name, log[i].syntax>>]

NothingCollected == [seen |-> {}, collected |-> <<>>, warns |-> <<>>]

\* C4: expansion and the collector never descend into a Done marker. After a
\* pass, every Done marker of the tree is one of the original program,
\* unchanged, or one the engine made; the calls made and the tree outside the
\* markers are the ones of the program with the markers' contents blotted
\* out; and the collector records what it records on that program.
C4_DoneNotEntered ==
  /\ (pc = "visited" /\ passes = 1) =>
       /\ \A m \in Range(get_markers(program, "Done")) :
            m \in Range(get_markers(orig, "Done")) \/ EngineDone(m)
       /\ KeysOf(calls) = KeysOf(Visit(Opaque(orig), StartState(recursive)).st.calls)
       /\ Opaque(program) = Opaque(Visit(Opaque(orig), StartState(recursive)).v)
  /\ mcOn = {orig} =>
       /\ seen = mc_visit(Opaque(orig), NothingCollected).seen
       /\ collected = mc_visit(Opaque(orig), NothingCollected).collected

\* A pass that called a transformer and kept a Done marker of the original
\* program that holds an invocation.
C4_Witness ==
  /\ pc = "visited" /\ passes = 1 /\ mcOn = {orig}
  /\ calls # <<>>
  /\ \E m \in Range(get_markers(orig, "Done")) :
       /\ m \in Range(get_markers(program, "Done"))
       /\ mc_visit(m.body, NothingCollected).seen # {}

(***************************************************************************)
(* Markers after expand_macros                                             *)
(***************************************************************************)

NoNewInvocationOfItself(n) ==
  \/ bindings[n].fn \in {"del", "const"}
  \/ bindings[n].fn = "id" /\ ~isnamemacro(bindings[n])
  \/ bindings[n].fn = "toA" /\ n # "a"
  \/ bindings[n].fn = "toB" /\ n # "b"

\* The same, with no new invocation of any bound macro.
NoNewInvocation(n) ==
  \/ bindings[n].fn \in {"del", "const"}
  \/ bindings[n].fn = "id" /\ ~isnamemacro(bindings[n])
  \/ bindings[n].fn = "toA" /\ ~isbound("a")
  \/ bindings[n].fn = "toB" /\ ~isbound("b")

\* C6 as stated: if every bound macro function returns a strictly smaller or
\* disjoint tree with no new invocation of itself, the expansion terminates.
C6_Original ==
  (\A n \in DOMAIN bindings : NoNewInvocationOfItself(n)) => pc # "exhausted"

\* C6, amended: if every bound macro function returns a strictly smaller or
\* disjoint tree with no new invocation of any bound macro, the expansion
\* terminates, and the tree it returns (the expander visiting what the
\* macro functions return, as it does unless recursion is switched off)
\* holds no invocation.
C6_Termination ==
  (\A n \in DOMAIN bindings : NoNewInvocation(n)) =>
    /\ pc # "exhausted"
    /\ (pc = "visited" /\ recursive) => mc_visit(program, NothingCollected).seen = {}

C6_Witness ==
  /\ \A n \in DOMAIN bindings : NoNewInvocation(n)
  /\ pc = "visited" /\ recursive
  /\ Len(calls) >= 2
  /\ \E c \in Range(calls) : c.syntax = "decorator" /\ c.out = c.tree
  /\ program # orig

(***************************************************************************)
(* The capability gate                                                     *)
(***************************************************************************)

CandidateNames == {"a", "b", "x", NoName}
CandidateArgs == {None, List(<<>>), List(<<Nx>>), List(<<Nx, Nb>>)}
Kinds == {"expr", "block", "decorator", "name"}

\* The name is bound, and the binding is declared for the use.
Recognized(macroname, macroargs, kind) ==
  /\ macroname \in DOMAIN bindings
  /\ IF kind = "name" THEN bindings[macroname].isname
     ELSE Falsy(macroargs) \/ bindings[macroname].isparam

\* C7: ismacrocall recognizes a candidate exactly when its name is bound and,
\* for the name kind, the binding is declared a name macro, or, for the other
\* kinds, the candidate has no arguments or the binding is declared
\* parametric; and every transformer call is one of a recognized candidate.
C7_CapabilityGate ==
  /\ \A n \in CandidateNames, args \in CandidateArgs, kind \in Kinds :
       ismacrocall(n, args, kind) <=> Recognized(n, args, kind)
  /\ \A c \in Range(calls) : Recognized(c.name, c.args, c.syntax)

\* A pass with a call with arguments and a call of a name macro, over a
\* program that mentions a bound name without calling it.
C7_Witness ==
  /\ pc = "visited"
  /\ \E c \in Range(calls) : c.syntax = "name"
  /\ \E c \in Range(calls) : c.syntax # "name" /\ ~Falsy(c.args)
  /\ \E n \in BoundNames(orig) : \A c \in Range(calls) : c.name # n.id

(***************************************************************************)
(* Brackets after a macro name                                             *)
(***************************************************************************)

BoundNonParametric(n) == isbound(n) /\ ~isparametricmacro(bindings[n])
BoundParametric(n) == isbound(n) /\ isparametricmacro(bindings[n])

\* The expression statement tag[a, b][body].
IsArgsThenTarget(p) ==
  /\ p.t = "Expr" /\ p.value.t = "Subscript"
  /\ p.value.value.t = "Subscript" /\ p.value.value.value.t = "Name"
  /\ p.value.value.slice.t = "Tuple"

\* C8 as stated: with tag bound and not parametric, tag[a, b][body] comes
\* back unchanged, no transformer is called, and a warning is given.
C8_Original ==
  (/\ passes = 1 /\ pc = "visited" /\ IsArgsThenTarget(orig)
   /\ BoundNonParametric(orig.value.value.value.id))
    => program = orig /\ calls = <<>> /\ warnings # <<>>

\* C8, amended: with tag bound and not parametric, the outer subscript of
\* tag[a, b][body] is no invocation, and the inner tag[a, b] is expanded as an
\* expression invocation of tag without arguments, the tuple (a, b) its
\* target; no warning is given.
C8_InnerBracketExpanded ==
  (/\ passes = 1 /\ IsArgsThenTarget(orig)
   /\ BoundNonParametric(orig.value.value.value.id))
    => /\ calls # <<>>
       /\ calls[1].name = orig.value.value.value.id
       /\ calls[1].syntax = "expr"
       /\ calls[1].invoke_tree = orig.value.value
       /\ calls[1].tree = orig.value.value.slice
       /\ calls[1].args = List(<<>>)
       /\ warnings = <<>>

C8_Witness ==
  /\ passes = 1 /\ pc = "visited" /\ IsArgsThenTarget(orig)
  /\ BoundNonParametric(orig.value.value.value.id)
  /\ program # orig
  /\ calls[1].tree.t = "Tuple"

\* The expression statement name[a, b].
IsSingleBracket(p) ==
  /\ p.t = "Expr" /\ p.value.t = "Subscript"
  /\ p.value.value.t = "Name" /\ p.value.slice.t = "Tuple"

\* C9 as stated: for a parametric macro, name[a, b] alone is a usage error,
\* and the transformer is not called with (a, b) as its target.
C9_Original ==
  (passes = 1 /\ IsSingleBracket(orig) /\ BoundParametric(orig.value.value.id))
    => /\ pc = "raised"
       /\ \A c \in Range(calls) :
            ~(c.name = orig.value.value.id /\ c.tree = orig.value.slice)

\* C9, amended: for a parametric macro, name[a, b] alone is an expression
\* invocation of name with an empty argument list and the tuple (a, b) as
\* its target: the transformer is called, and the expansion fails only if a
\* transformer raises.
C9_SingleBracketIsTarget ==
  (passes = 1 /\ IsSingleBracket(orig) /\ BoundParametric(orig.value.value.id))
    => /\ calls # <<>>
       /\ calls[1].name = orig.value.value.id
       /\ calls[1].syntax = "expr"
       /\ calls[1].tree = orig.value.slice
       /\ calls[1].args = List(<<>>)
       /\ pc = "raised" => calls[Len(calls)].out = Raised

C9_Witness ==
  /\ passes = 1 /\ pc = "visited"
  /\ IsSingleBracket(orig) /\ BoundParametric(orig.value.value.id)
  /\ calls[1].tree.t = "Tuple" /\ Len(calls[1].tree.elts) = 2

(***************************************************************************)
(* The likely-mistake warning                                              *)
(***************************************************************************)

\* The clauses of the `with` header, or the decorators, of the program.
Clauses(p) ==
  IF p.t = "With" THEN [i \in DOMAIN p.items |-> p.items[i].context_expr]
  ELSE IF p.t = "FunctionDef" THEN p.decorator_list
  ELSE <<>>

ClauseKind(p) == IF p.t = "With" THEN "block" ELSE "decorator"

\* name[args] with name bound to a macro that is not parametric.
Mistaken(e) ==
  e.t = "Subscript" /\ e.value.t = "Name" /\ BoundNonParametric(e.value.id)

RecognizedClauses(p) ==
  {i \in DOMAIN Clauses(p) :
     \E d \in {destructure_candidate(Clauses(p)[i])} :
       Recognized(d.name, d.args, ClauseKind(p))}

FirstOf(S) == CHOOSE i \in S : \A j \in S : i <= j
LastOf(S) == CHOOSE i \in S : \A j \in S : j <= i

\* The `with` statement p without its clause i.
Residual(p, i) == [p EXCEPT !.items = RemoveAt(@, i)]

\* The first pass over a `with` statement that has a recognized macro clause.
BlockVisited == passes = 1 /\ orig.t = "With" /\ RecognizedClauses(orig) # {}

\* The first call of the pass is the block call of clause i of the program,
\* made on the statement without that clause.
FirstCallIsBlockCallOf(i) ==
  /\ calls # <<>>
  /\ calls[1].syntax = "block"
  /\ calls[1].name = destructure_candidate(Clauses(orig)[i]).name
  /\ calls[1].args = destructure_candidate(Clauses(orig)[i]).args
  /\ calls[1].optional_vars = orig.items[i].optional_vars
  /\ calls[1].invoke_tree = Residual(orig, i)

\* The macro of the first call gives nothing that is visited further.
FirstCallEndsVisit == bindings[calls[1].name].fn \in {"del", "const", "raise"}

\* C11 as stated: the first recognized clause is the one expanded; the target
\* is the body if that clause was the last clause of the header, and a list
\* holding the statement with the remaining clauses otherwise.
C11_Original ==
  BlockVisited =>
    \E i \in {FirstOf(RecognizedClauses(orig))} :
      /\ FirstCallIsBlockCallOf(i)
      /\ calls[1].tree = IF i = Len(orig.items) THEN List(orig.body)
                         ELSE List(<<Residual(orig, i)>>)

\* C11, amended: the visit of a `with` statement with a recognized macro
\* clause makes one transformer call, for the first recognized clause, which
\* is taken out of the header; the target is the body if that clause was the
\* only clause of the header, and otherwise a one-element list holding the
\* statement with the remaining clauses in their order and the same body.
C11_FirstClauseExpanded ==
  BlockVisited =>
    \E i \in {FirstOf(RecognizedClauses(orig))} :
      /\ FirstCallIsBlockCallOf(i)
      /\ calls[1].tree = IF Len(orig.items) = 1 THEN List(orig.body)
                         ELSE List(<<Residual(orig, i)>>)
      /\ FirstCallEndsVisit => Len(calls) = 1

C11_Witness ==
  /\ BlockVisited /\ pc = "visited"
  /\ Len(orig.items) = 2
  /\ RecognizedClauses(orig) = {1, 2}
  /\ orig.items[1] # orig.items[2]
  /\ Len(calls) >= 2
  /\ calls[1].tree = List(<<Residual(orig, 1)>>)
  /\ calls[2].syntax = "block" /\ calls[2].tree = List(orig.body)

(***************************************************************************)
(* Several macro decorators on one definition                              *)
(***************************************************************************)

\* The m-th smallest element of a set of positions.
NthSmallest(K, m) == CHOOSE i \in K : Cardinality({j \in K : j < i}) = m - 1
NthLargest(K, m) == CHOOSE i \in K : Cardinality({j \in K : j > i}) = m - 1

\* The definition p with the decorators at the positions `removed` taken out,
\* the others in their order.
Undecorated(p, removed) ==
  [p EXCEPT !.decorator_list =
     [m \in 1 .. Cardinality(DOMAIN @ \ removed) |-> @[NthSmallest(DOMAIN @ \ removed, m)]]]

\* The first pass over a definition that has a recognized macro decorator.
DecoratedVisited ==
  passes = 1 /\ orig.t = "FunctionDef" /\ RecognizedClauses(orig) # {}

\* Call k of the pass is the decorator call of the k-th recognized decorator
\* of the program counted from the last, made on the definition without that
\* decorator and the recognized ones after it.
IsDecoratorCallFromLast(k) ==
  /\ k \in DOMAIN calls
  /\ calls[k].syntax = "decorator"
  /\ \E i \in {NthLargest(RecognizedClauses(orig), k)} :
       /\ calls[k].name = destructure_candidate(orig.decorator_list[i]).name
       /\ calls[k].args = destructure_candidate(orig.decorator_list[i]).args
       /\ \E remaining \in {Undecorated(orig, {j \in RecognizedClauses(orig) : j >= i})} :
            calls[k].tree = remaining /\ calls[k].invoke_tree = remaining

\* C12: the first call of the visit of a definition with recognized macro
\* decorators is the decorator call of the last recognized one, which alone is
\* taken out of the list, with the whole definition and its other decorators
\* in their order as the target; when the transformers return their tree
\* and the expander visits it again (recursion is on), the recognized
\* decorators further out are expanded by the following calls,
\* one each, from the innermost to the outermost, and no other decorator call
\* is made.
C12_InnermostDecoratorFirst ==
  DecoratedVisited =>
    /\ IsDecoratorCallFromLast(1)
    /\ (ReturnsInput /\ recursive /\ pc = "visited") =>
         /\ \A k \in 1 .. Cardinality(RecognizedClauses(orig)) : IsDecoratorCallFromLast(k)
         /\ \A k \in DOMAIN calls :
              calls[k].syntax = "decorator" => k <= Cardinality(RecognizedClauses(orig))

C12_Witness ==
  /\ DecoratedVisited /\ pc = "visited" /\ ReturnsInput /\ recursive
  /\ RecognizedClauses(orig) = {1, 2}
  /\ orig.decorator_list[1] # orig.decorator_list[2]
  /\ IsDecoratorCallFromLast(1) /\ IsDecoratorCallFromLast(2)
  /\ calls[1].tree.decorator_list = <<orig.decorator_list[1]>>
  /\ calls[2].tree.decorator_list = <<>>

(***************************************************************************)
(* What a visit of the collector changes                                   *)
(***************************************************************************)

IsPrefix(s, whole) == Len(s) <= Len(whole) /\ SubSeq(whole, 1, Len(s)) = s

NoDuplicates(s) == \A i, j \in DOMAIN s : s[i] = s[j] => i = j

\* The step is a visit of the collector: it has now visited one more tree.
CollectorVisited == mcOn' # mcOn /\ mcOn' # {}

\* The pairs of the tree in the order a collector that has recorded nothing
\* comes across them, without those in `known`.
FirstSeenOrder(tree, known) ==
  SelectSeq(mc_visit(tree, NothingCollected).collected, LAMBDA key : key \notin known)

\* The visit leaves the tree, the binding table and the expander alone, and
\* appends to `collected` the pairs of the tree not recorded since the last
\* clear(), each once, in first-seen order.
CollectorOnlyCollects ==
  /\ program' = program /\ bindings' = bindings /\ calls' = calls
  /\ recursive' = recursive
  /\ IsPrefix(collected, collected')
  /\ NoDuplicates(collected')
  /\ collected' = collected \o FirstSeenOrder(program, Range(collected))

\* C13 as stated: a visit of the collector calls no transformer, changes
\* neither the tree nor the binding table, and does nothing but append to
\* `collected` the pairs not yet recorded: in particular it gives no warning.
C13_Original ==
  [][CollectorVisited => CollectorOnlyCollects /\ warnings' = warnings]_vars

\* C13, amended: a visit of the collector calls no transformer and changes
\* neither the tree nor the binding table; it appends to `collected` each
\* pair not recorded since the last clear(), so that `collected` has no
\* duplicates and is in first-seen order, and besides it gives the
\* detector's likely-mistake warning for every `with` clause and decorator
\* it scans that uses a bound non-parametric name with arguments.
C13_CollectsAndWarns ==
  [][CollectorVisited =>
       /\ CollectorOnlyCollects
       /\ IsPrefix(warnings, warnings')
       /\ \A k \in DOMAIN warnings' :
            k > Len(warnings) =>
              /\ BoundNonParametric(warnings'[k].name)
              /\ warnings'[k].syntax \in {"block", "decorator"}
       /\ \A e \in Range(Clauses(program)) :
            Mistaken(e) =>
              \E k \in DOMAIN warnings' :
                k > Len(warnings) /\ warnings'[k] = Warning(e.value.id, ClauseKind(program))]_vars

\* The collector has visited a program whose two clauses are the same
\* mistaken invocation: it warned twice and recorded the pair once.
C13_Witness ==
  /\ passes = 0 /\ mcOn = {orig}
  /\ Len(Clauses(orig)) = 2
  /\ Clauses(orig)[1] = Clauses(orig)[2] /\ Mistaken(Clauses(orig)[1])
  /\ Len(warnings) = 2 /\ warnings[1] = warnings[2]
  /\ <<warnings[1].name, "expr">> \in Range(collected)
  /\ NoDuplicates(collected)

(***************************************************************************)
(* The binding table of find_macros                                        *)
(***************************************************************************)

\* The key of an imported item: its alias if it has one, else its name.
KeyOf(item) == IF item.asname # NoName THEN item.asname ELSE item.name

\* The imported items after `macros` of the qualifying top-level
\* declarations of the program, as <<statement, item>> positions.
ImportedItems ==
  UNION {{<<i, j>> : j \in 2 .. Len(rorig[i].names)} :
           i \in {k \in DOMAIN rorig : MacroImportDecl(rorig[k])}}

ItemAt(p) == rorig[p[1]].names[p[2]]

\* The entry of item p: under its key, the attribute of its original name in
\* the module the declaration's plain import names.
HasEntry(p) ==
  /\ KeyOf(ItemAt(p)) \in DOMAIN rbindings
  /\ rbindings[KeyOf(ItemAt(p))].attr = ItemAt(p).name
  /\ rbindings[KeyOf(ItemAt(p))].module = rbody[p[1]].names[1].name

\* The table has no other keys than those of the imported items, and the
\* statements that are not qualifying declarations are unchanged.
NothingElseBound ==
  /\ DOMAIN rbindings = {KeyOf(ItemAt(p)) : p \in ImportedItems}
  /\ Len(rbody) = Len(rorig)
  /\ \A i \in DOMAIN rorig : ~MacroImportDecl(rorig[i]) => rbody[i] = rorig[i]

\* C14 as stated: every imported item has its entry unless a later
\* declaration has an item with the same key.
C14_Original ==
  rpc = "returned" =>
    /\ NothingElseBound
    /\ \A p \in ImportedItems :
         (\A q \in ImportedItems : KeyOf(ItemAt(q)) = KeyOf(ItemAt(p)) => q[1] <= p[1])
           => HasEntry(p)

\* C14, amended: the binding table returned by find_macros has an entry for
\* every imported item after the leading `macros` of every qualifying
\* top-level declaration, keyed by the alias or else the original name and
\* mapped to the attribute of the original name in the loaded module, a later
\* item with the same key (of the same or of a later declaration) replacing
\* the earlier entry; other statements contribute no entry and are unchanged.
C14_BindingTable ==
  rpc = "returned" =>
    /\ NothingElseBound
    /\ \A p \in ImportedItems :
         (\A q \in ImportedItems :
            KeyOf(ItemAt(q)) = KeyOf(ItemAt(p))
              => (q[1] < p[1] \/ (q[1] = p[1] /\ q[2] <= p[2])))
           => HasEntry(p)

\* find_macros returned for a program in which an alias differs from every
\* attribute asked for, a later declaration binds a key again, and a
\* declaration nested in a definition binds nothing.
C14_Witness ==
  /\ rpc = "returned"
  /\ Len(rorig) = 2
  /\ rorig[1] = ImportFrom(<<"mac">>, <<Alias("macros", NoName), Alias("f", NoName)>>, 0)
  /\ rorig[2] = ImportFrom(<<"mac">>, <<Alias("macros", NoName), Alias("f", "g"), Alias("h", "f")>>, 0)
  /\ DOMAIN rbindings = {"f", "g"}
  /\ rbindings["f"].attr = "h" /\ rbindings["g"].attr = "f"

(***************************************************************************)
(* changed_by against the value at entry                                   *)
(***************************************************************************)

\* C15: in every section entered through changed_by(delta), whenever the
\* scope object was created, the tracker's value is the value in effect
\* immediately before the section was entered plus delta.
C15_ChangedByFromEntry ==
  \A k \in DOMAIN open :
    open[k].cm.how = "changed_by" => stack[k + 1] = open[k].before + open[k].cm.arg

(***************************************************************************)
(* import_module_as_main and sys.modules["__main__"]                       *)
(***************************************************************************)

\* C16: whenever import_module_as_main has returned, sys.modules["__main__"]
\* is the module it imported and returned, no longer the bootstrapper's;
\* whenever it has raised, sys.modules["__main__"] is still the bootstrapper's
\* module.
C16_MainReplacedOnSuccess ==
  /\ mainPc = "returned" =>
       /\ mainModule # None /\ mainModule # Bootstrapper
       /\ sysModules[<<"__main__">>] = mainModule
  /\ mainPc = "raised" => sysModules[<<"__main__">>] = Bootstrapper

(***************************************************************************)
(* After an identifier-form call                                           *)
(***************************************************************************)

\* The program is an expression statement that is a bare identifier
\* recognized as an identifier-form invocation, and MacroExpander.visit has
\* run on it once.
NameVisited ==
  /\ passes = 1 /\ pc \in {"visited", "raised", "exhausted"}
  /\ orig.t = "Expr" /\ orig.value.t = "Name"
  /\ Recognized(orig.value.id, None, "name")

\* The first call of the pass is the identifier-form call for the program's
\* identifier.
FirstCallIsNameCall ==
  /\ calls # <<>>
  /\ calls[1].syntax = "name"
  /\ calls[1].name = orig.value.id
  /\ calls[1].tree = orig.value /\ calls[1].invoke_tree = orig.value

\* The tree is the bare identifier n again.
SameIdentifier(tree, n) == tree.t = "Name" /\ tree.id = n.id

\* C17: after an identifier-form call, a result that is the same bare
\* identifier is wrapped in Done and not walked again; any other result is
\* walked again if recursion was enabled before the call, so that the
\* invocations in it are expanded; no result deletes the identifier, with no
\* wrapping and no walk.
C17_AfterNameCall ==
  (NameVisited /\ pc = "visited") =>
    /\ FirstCallIsNameCall
    /\ SameIdentifier(calls[1].out, orig.value) =>
         program = Expr(Done(calls[1].out)) /\ Len(calls) = 1
    /\ calls[1].out = None =>
         /\ program.value = None /\ Len(calls) = 1
         /\ get_markers(program, "Done") = <<>>
    /\ (calls[1].out # None /\ ~SameIdentifier(calls[1].out, orig.value) /\ recursive) =>
         \E walked \in {Visit(calls[1].out, StartState(TRUE))} :
           /\ program.value = walked.v
           /\ SubSeq(calls, 2, Len(calls)) = walked.st.calls
           /\ mc_visit(program, NothingCollected).seen = {}

\* A name macro returned an invocation of another macro, which was walked
\* and expanded.
C17_Witness ==
  /\ NameVisited /\ pc = "visited" /\ recursive
  /\ FirstCallIsNameCall
  /\ calls[1].out.t = "Subscript"
  /\ Len(calls) = 2 /\ calls[2].syntax = "expr" /\ calls[2].name = "b"
  /\ calls[2].invoke_tree = calls[1].out

(***************************************************************************)
(* The recursive flag around an identifier-form call                       *)
(***************************************************************************)

\* C18: in every visit of the expander, self.recursive is false during each
\* identifier-form call, whatever it was before; after the call, ended by
\* return or by an error of the transformer, it is what it was before: the
\* calls of the other kinds made later in the same visit see the value the
\* visit started with, and so does the caller when the visit returns or
\* raises.
C18_RecursiveFlagScoped ==
  [][ExpanderVisit =>
       /\ recursive' = recursive
       /\ \A k \in DOMAIN calls' :
            calls'[k].rec = (calls'[k].syntax # "name" /\ recursive)]_vars

\* A visit in recursive mode made an identifier-form call and, after it, a
\* call of another kind; and a visit ended by an error raised in an
\* identifier-form call.
C18_Witness ==
  /\ passes = 1 /\ recursive
  /\ \/ /\ pc = "visited"
        /\ \E j, k \in DOMAIN calls :
             j < k /\ calls[j].syntax = "name" /\ calls[k].syntax # "name" /\ calls[k].rec
     \/ /\ pc = "raised"
        /\ calls[Len(calls)].syntax = "name" /\ calls[Len(calls)].out = Raised

(***************************************************************************)
(* When the result of an identifier-form call is wrapped in Done           *)
(***************************************************************************)

\* The result of the identifier-form call of the program was wrapped: the
\* program's expression is now a Done marker around it.
ResultWrapped == program.value.t = "Done" /\ program.value.body = calls[1].out

\* C19 as stated: the result is wrapped only when the transformer returned
\* the identifier unchanged and recursion was enabled before the call; with
\* recursion disabled, an unchanged identifier is not wrapped.
C19_Original ==
  (NameVisited /\ pc = "visited") =>
    (ResultWrapped <=> (SameIdentifier(calls[1].out, orig.value) /\ recursive))

\* C19, amended: the result is wrapped exactly when the transformer returned
\* the identifier unchanged, whether recursion is enabled or disabled by an
\* enclosing scope.
C19_WrappedIffUnchanged ==
  (NameVisited /\ pc = "visited") =>
    /\ FirstCallIsNameCall
    /\ ResultWrapped <=> SameIdentifier(calls[1].out, orig.value)

\* With recursion disabled, a name macro returned its identifier unchanged,
\* and the identifier was wrapped.
C19_Witness ==
  /\ NameVisited /\ pc = "visited" /\ ~recursive
  /\ SameIdentifier(calls[1].out, orig.value)
  /\ program = Expr(Done(orig.value))

(***************************************************************************)
(* The argument list a transformer is called with                          *)
(***************************************************************************)

\* The expression statement name[a, b][body] with name bound and parametric,
\* visited once.
ParametricExprVisited ==
  /\ passes = 1 /\ IsArgsThenTarget(orig)
  /\ BoundParametric(orig.value.value.value.id)

IsCoverageStatement(n) ==
  n.t = "Done" /\ n.body.t = "Expr" /\ n.body.value.t = "Constant"
    /\ n.body.value.value = "mcpy coverage"

\* A result of a transformer or of the expansion as a sequence of nodes.
AsNodes(tree) ==
  IF tree.t = "None" THEN <<>> ELSE IF tree.t = "list" THEN tree.elts ELSE <<tree>>

\* MacroExpander.visit has gone over a `with` statement or a definition with
\* a recognized macro clause: the first call is the call for that clause,
\* and every transformer call returned.
InvocationExpanded ==
  /\ passes = 1 /\ pc \in {"visited", "raised"}
  /\ orig.t \in {"With", "FunctionDef"} /\ RecognizedClauses(orig) # {}
  /\ \A k \in DOMAIN calls : calls[k].out # Raised

\* The invocation node of the first call: the `with` statement, or the
\* decorator that was taken out.
InvocationNode ==
  IF orig.t = "With" THEN orig
  ELSE orig.decorator_list[LastOf(RecognizedClauses(orig))]

\* What the expansion made of the nodes the first transformer call returned
\* is those nodes when they are not visited again (recursion is off), or are
\* visited with no further transformer call.
ReturnedNodesStay == ~calls[1].rec \/ Len(calls) = 1

\* The replacement starts with the coverage statement of the first call,
\* followed by the nodes the transformer returned.
CoverageInjected ==
  /\ pc = "visited"
  /\ program.t = "list" /\ program.elts # <<>>
  /\ program.elts[1] = CoverageDummy(InvocationNode.lineno, calls[1].name)
  /\ ReturnedNodesStay => Tail(program.elts) = AsNodes(calls[1].out)

\* The replacement is the result of the transformer, and no coverage
\* statement was made from a node without a line number (a statement in
\* front, if any, is the one of a later call with an invocation node of
\* its own).
CoverageSkipped ==
  /\ pc = "visited"
  /\ \A n \in Nodes(program) : IsCoverageStatement(n) => n.body.value.line # 0
  /\ ReturnedNodesStay => program = calls[1].out

\* After calls of the expression and identifier forms alone, no coverage
\* statement is anywhere in the program.
NoCoverageForExpressions ==
  (passes = 1 /\ \A k \in DOMAIN calls : calls[k].syntax \in {"expr", "name"})
    => \A n \in Nodes(program) : ~IsCoverageStatement(n)

\* C21: after a block-form or decorator-form transformer call whose
\* invocation node carries source-location metadata (a line number or a
\* column offset), the replacement starts with one Done-wrapped coverage
\* statement naming the line and the macro of the invocation, followed by
\* the nodes the transformer returned, and by nothing when it returned None;
\* with no source-location metadata on the invocation node the result of the
\* transformer is returned unchanged, with no coverage statement; expression
\* and identifier invocations never get a coverage statement.
C21_CoverageStatement ==
  /\ InvocationExpanded =>
       IF hasattr(InvocationNode, "lineno") \/ hasattr(InvocationNode, "col_offset")
         THEN CoverageInjected
         ELSE CoverageSkipped
  /\ NoCoverageForExpressions

\* C21 for the invocation nodes that carry a line number or no source
\* location at all: the statement is injected for the first, skipped for
\* the second.
C21_CoverageWhenLineno ==
  /\ (InvocationExpanded /\ hasattr(InvocationNode, "lineno")) => CoverageInjected
  /\ (InvocationExpanded /\ ~hasattr(InvocationNode, "lineno")
                         /\ ~hasattr(InvocationNode, "col_offset")) => CoverageSkipped
  /\ NoCoverageForExpressions

\* A block call on a parsed statement whose transformer returned None: the
\* replacement is the coverage statement alone.
C21_Witness ==
  /\ InvocationExpanded /\ orig.t = "With" /\ hasattr(orig, "lineno")
  /\ calls[1].out = None
  /\ program = List(<<CoverageDummy(1, "a")>>)

\* A decorator with a column offset and no line number: every transformer
\* call returned, and the visit ends in an error.
C21_ColumnOffsetOnly ==
  /\ InvocationExpanded /\ orig.t = "FunctionDef"
  /\ ~hasattr(InvocationNode, "lineno") /\ hasattr(InvocationNode, "col_offset")
  /\ pc = "raised"

(***************************************************************************)
(* C22: the level is a non-negative integer                                *)
(***************************************************************************)

\* Every level on the stack, and the level of every scope made and not yet
\* entered, is a non-negative integer, and the stack is not empty.
LevelsNonNegative ==
  /\ stack # <<>>
  /\ \A i \in DOMAIN stack : stack[i] \in Nat
  /\ \A cm \in cms : cm.value \in Nat
  /\ Value \in Nat

\* A call of set_to or changed_by raised.
CallRaised == lastError' \in {"TypeError", "ValueError"}

\* C22: for a tracker created with start >= 0, after any sequence of set_to
\* and changed_by calls and scope entries and exits, normal or by an error,
\* the stack is not empty and the current value is a non-negative integer;
\* a set_to or changed_by call that would give a non-integer or negative
\* level raises at the call: it makes no scope that could be entered, and
\* leaves the stack unchanged.
C22_LevelNonNegative ==
  /\ []LevelsNonNegative
  /\ [][CallRaised => stack' = stack /\ cms' = cms /\ open' = open]_vars

\* Inside a scope that changed_by brought to level 0, a call that would give
\* a negative level has just raised.
C22_Witness ==
  /\ lastError = "ValueError"
  /\ open # <<>> /\ Value = 0 /\ Len(stack) = Len(open) + 1
  /\ open[1].cm.how = "changed_by"

====
